---- MODULE Spec2Model ----
(***************************************************************************)
(* nsyte upload command: src/src/commands/upload.ts.                       *)
(*                                                                         *)
(* publishToRelays (lines 974-1088) is modelled as one state machine per   *)
(* WebSocket it opens: every handler the code installs (onopen, onmessage, *)
(* onerror, onclose, the setTimeout callback) is one action.  JavaScript   *)
(* runs a handler and the promise continuations it releases to completion  *)
(* before the next handler, so the continuation of `await connectPromise`  *)
(* and of Promise.all is part of the action that settles the promise.      *)
(* SpecPublish is one call of publishToRelays, FairPublish the same with   *)
(* timers that fire.                                                       *)
(*                                                                         *)
(* uploadCommand (lines 242-972) is modelled under Spec with one action    *)
(* per await: the action starts when the awaited call answers and runs to  *)
(* the next await, exit or return.  A call of publishToRelays is one such  *)
(* await there, answered as the handlers allow.  SpecSetup is the part     *)
(* before the scan (lines 86-242: project, signer, lists, fallback copy),  *)
(* SpecPurge the purge loop (lines 761-851) of a run with nothing to       *)
(* upload, with longer server and to-delete lists than Spec affords.       *)
(* SpecSummary is the error summary (lines 685-739) printed for the        *)
(* results of processUploads, computed on error texts of every kind the    *)
(* code tells apart.                                                       *)
(* SpecMetadata is the metadata part (lines 853-955) of a run that has     *)
(* uploaded, with the publication flags of the project file next to those  *)
(* of the command line.                                                    *)
(***************************************************************************)
EXTENDS Integers, Sequences, FiniteSets, Bags, TLC

\* ---------------------------------------------------------------- bounds
\* Longest relay list a call is given.
MaxRelays == 2
MaxRunRelays == 1
\* Frames the relays deliver to the client during one behaviour.
MaxFrames == 2
\* Longest server list, number of paths and of content hashes of a run.
MaxServers == 1
MaxPaths == 2
MaxHashes == 2
\* Longest server list and number of paths of a run that starts at the purge.
MaxPurgeServers == 2
MaxPurgePaths == 3
\* Longest result list the error summary is printed for.
MaxResults == 4

\* ------------------------------------------------------------- constants
\* The id of the record handed to a direct publishToRelays call, and an id
\* that belongs to no record of the run.
EventId(kind, ref) == <<kind, ref>>
DirectEventId == EventId(1, 0)
OtherId == EventId(-1, 0)
NoId == EventId(-2, 0)

\* Message texts, as token sequences so that String.includes is computed.
Msgs ==
  { <<>>,
    <<"blocked:", "spam">>,
    <<"rate-limit", "slow", "down">>,
    <<"noting too much">> }

\* msg.includes(tok)
Includes(msg, tok) == \E k \in DOMAIN msg : msg[k] = tok

VARIABLES
  relays,            \* the relay list (URLs) of the run
  badUrl,            \* URLs for which `new WebSocket(url)` throws
  pub,               \* the publishToRelays call in progress
  conns,             \* the WebSockets created so far, with their promise
  messageCollector,  \* bag of the entries added to the MessageCollector
  wire,              \* EVENT frames sent: set of <<relay, event id>>
  frames,            \* number of frames delivered so far
  pc,                \* where uploadCommand (or the direct caller) stands
  exitCode,          \* code given to Deno.exit; 0 once the command returned
  options,           \* UploadCommandOptions and what the project file adds
  servers,           \* the blossom server list
  localFiles,        \* includedFiles of getLocalFiles
  remoteFiles,       \* result of listRemoteFiles
  conclusive,        \* whether some relay answered the remote fetch
  fileComparisonMessage,
  diff,              \* toTransfer, existing, toDelete
  forceUpload,       \* answer to Confirm.prompt: "none", "yes", "no"
  filesToUpload,
  results,           \* what processUploads returned
  loop,              \* loop cursors and the purge counters
  log,               \* what the run did: requests, signatures, calls
  projectContext,    \* what readProjectFile or setupProject returned
  publisherPubkey,   \* the public key the run publishes and fetches for
  signer,            \* the source of the signer in use, "none" before
  summary            \* the error summary printed for the upload results

pubVars == <<relays, badUrl, pub, conns, messageCollector, wire, frames>>

runVars == <<pc, exitCode, options, servers, localFiles, remoteFiles, conclusive,
             fileComparisonMessage, diff, forceUpload, filesToUpload, results,
             loop, log, projectContext, signer, publisherPubkey, summary>>

vars == <<pubVars, runVars>>

\* Values of the run's variables before the run sets them.
NoOptions ==
  [force |-> FALSE, purge |-> FALSE, nonInteractive |-> TRUE,
   publishRelayList |-> FALSE, publishServerList |-> FALSE,
   publishProfile |-> FALSE, profile |-> FALSE,
   privatekey |-> FALSE, nbunksec |-> FALSE, bunker |-> FALSE,
   fallback |-> FALSE, relays |-> 0, servers |-> 0]

\* projectContext before the project is read; relays and servers are the
\* lengths of the project's lists, nbunk whether the secrets manager holds
\* an nbunksec for the project's bunker.
NoProject ==
  [projectData |-> "unread", privateKey |-> FALSE, bunkerPubkey |-> FALSE,
   nbunk |-> FALSE, fallback |-> FALSE, relays |-> 0, servers |-> 0,
   publishRelayList |-> FALSE, publishServerList |-> FALSE]

NoDiff == [toTransfer |-> <<>>, existing |-> <<>>, toDelete |-> <<>>]

NoLoop == [i |-> 0, s |-> 0, k |-> 0, completed |-> 0, failed |-> 0]

NoLog ==
  [copied |-> FALSE, scanned |-> FALSE, heads |-> {}, uploaderCalls |-> 0,
   signed |-> {}, refused |-> {}, handed |-> {}, deletes |-> {}, fetchedFor |-> {},
   emptyScan |-> "none"]

\* The public key of the signer built from a source: getPublicKey() of the
\* signer object, or the userPubkey that came with the bunker client.
PubkeyOf(source) == <<"pubkey", source>>

\* No error summary printed.
NoSummary == [groups |-> <<>>, verbose |-> FALSE, lines |-> <<>>]

\* Deno.exit ends the process: no handler runs afterwards.
Alive == pc # "exited"

\* The relay URLs of a list of length n.
RelayList(n) == [i \in 1..n |-> i]

\* --------------------------------------------------------------- frames
\* What a relay may put on the socket: OK frames of length 3 or 4 with any
\* id, flag and message, a NOTICE, and text that is not JSON.
OkFrames(eventId) ==
  { [verb |-> "OK", id |-> id, flag |-> fl, len |-> l, msg |-> m] :
      id \in {eventId, OtherId}, fl \in BOOLEAN, l \in {3, 4}, m \in Msgs }

OtherFrames ==
  { [verb |-> "NOTICE", id |-> OtherId, flag |-> FALSE, len |-> 2, msg |-> <<>>],
    [verb |-> "garbage", id |-> OtherId, flag |-> FALSE, len |-> 0, msg |-> <<>>] }

Frames(eventId) ==
  { f \in OkFrames(eventId) : f.len = 3 => f.msg = <<>> } \cup OtherFrames

\* -------------------------------------------------------- the collector
Entry(type, target, content) ==
  [type |-> type, target |-> target, content |-> content]

addRelayRejection(mc, relay, content) ==
  mc (+) SetToBag({Entry("relay-rejection", relay, content)})

addConnectionError(mc, relay, content) ==
  mc (+) SetToBag({Entry("connection-error", relay, content)})

\* Number of entries of the collector for a relay.
RECURSIVE SumOver(_, _)
SumOver(mc, S) ==
  IF S = {} THEN 0
  ELSE LET e == CHOOSE x \in S : TRUE IN mc[e] + SumOver(mc, S \ {e})

EntriesFor(mc, relay) ==
  SumOver(mc, {e \in BagToSet(mc) : e.target = relay})

EntriesOf(mc, relay, content) ==
  SumOver(mc, {e \in BagToSet(mc) : e.target = relay /\ e.content = content})

\* ----------------------------------------------------- publishToRelays
\* One WebSocket of a call.  outcome is "pending" while connectPromise is
\* unsettled; the first resolve decides it.  ackId is the id field of the
\* OK frame that settled the promise.
NewConn(relay, eventId, throws) ==
  [relay |-> relay,
   event |-> eventId,
   cur |-> TRUE,
   sock |-> IF throws THEN "failed" ELSE "connecting",
   timer |-> "none",
   outcome |-> IF throws THEN "ctor-failed" ELSE "pending",
   ackId |-> NoId,
   sent |-> 0]

Settled(c) == c.outcome # "pending"

Resolve_LastWins(cs, i, out, ack) ==
  [cs EXCEPT ![i].outcome = out, ![i].ackId = ack]

\* resolve(value) on the promise of connection i: the first call wins.
Resolve(cs, i, out, ack) ==
  IF Settled(cs[i]) THEN cs
  ELSE [cs EXCEPT ![i].outcome = out, ![i].ackId = ack]

\* The connections of the call in progress.
Current(cs) == {i \in DOMAIN cs : cs[i].cur}

\* successCount at line 1052: the connections whose promise resolved true.
SuccessCount(cs) == Cardinality({i \in Current(cs) : cs[i].outcome = "accepted"})

\* Lines 1063-1082.
PublishResult(cs) == SuccessCount(cs) > 0

Await_FirstAccepted(p, cs) ==
  IF p.state = "running"
       /\ \/ \A i \in Current(cs) : Settled(cs[i])
          \/ \E i \in Current(cs) : cs[i].outcome = "accepted"
    THEN [p EXCEPT !.state = "returned", !.result = PublishResult(cs)]
    ELSE p

\* Promise.all at line 981 and the return at 1082: once every connection of
\* the call has settled the call returns.
Await(p, cs) ==
  IF p.state = "running" /\ \A i \in Current(cs) : Settled(cs[i])
    THEN [p EXCEPT !.state = "returned", !.result = PublishResult(cs)]
    ELSE p

\* socket.close(): starts the closing handshake of an open socket.
CloseSock(s) == IF s = "open" THEN "closing" ELSE s

\* A connection that can still run a handler.
Live(c) == c.sock \in {"connecting", "open", "closing", "errored"} \/ c.timer = "armed"

StartPublish_NoInnerCatch(eventId) ==
  LET old == SelectSeq(conns, Live)
      kept == [k \in DOMAIN old |-> [old[k] EXCEPT !.cur = FALSE]]
      fresh == [i \in DOMAIN relays |-> NewConn(relays[i], eventId, relays[i] \in badUrl)]
      cs == kept \o fresh
      run == [state |-> "running", event |-> eventId, result |-> FALSE]
  IN /\ conns' = cs
     /\ messageCollector' = messageCollector
     /\ pub' = IF \E i \in DOMAIN relays : relays[i] \in badUrl
                 THEN [run EXCEPT !.state = "returned"]
                 ELSE Await(run, cs)

\* Lines 976-983 and 1054-1060: the synchronous part of the call.  Each
\* relay gets a socket, or the constructor throws and the catch records it.
StartPublish(eventId) ==
  LET old == SelectSeq(conns, Live)
      kept == [k \in DOMAIN old |-> [old[k] EXCEPT !.cur = FALSE]]
      fresh == [i \in DOMAIN relays |-> NewConn(relays[i], eventId, relays[i] \in badUrl)]
      cs == kept \o fresh
      failed == {relays[i] : i \in {j \in DOMAIN relays : relays[j] \in badUrl}}
      mc == messageCollector (+)
              SetToBag({Entry("connection-error", r, <<"Connection failed:">>) : r \in failed})
  IN /\ conns' = cs
     /\ messageCollector' = mc
     /\ pub' = Await([state |-> "running", event |-> eventId, result |-> FALSE], cs)

\* socket.onopen, lines 986-1034.
OnOpen(i) ==
  /\ Alive
  /\ conns[i].sock = "connecting"
  /\ conns' = [conns EXCEPT ![i].sock = "open", ![i].timer = "armed", ![i].sent = @ + 1]
  /\ wire' = wire \cup {<<conns[i].relay, conns[i].event>>}
  /\ UNCHANGED <<relays, badUrl, pub, messageCollector, frames>>
  /\ UNCHANGED runVars

\* errorMessage at line 1002.
ErrorMessage(f) == IF f.msg = <<>> THEN <<"Unknown relay error">> ELSE f.msg

IsRateLimit_FirstOnly(msg) == Includes(msg, "rate-limit")

\* The test of line 1004.
IsRateLimit(msg) == Includes(msg, "rate-limit") \/ Includes(msg, "noting too much")

\* The branch socket.onmessage takes, lines 992-1020.
Classify(f, eventId) ==
  IF f.verb = "OK" /\ f.len >= 3 /\ f.flag THEN "accept"
  ELSE IF f.verb = "OK" /\ f.len >= 4 /\ ~f.flag THEN "reject"
  ELSE "ignore"

\* socket.onmessage, lines 990-1024.  The handler is installed by onopen;
\* a runtime may still deliver frames after close() was called and before
\* the close event.
OnMessage(i, f) ==
  /\ Alive
  /\ conns[i].sock \in {"open", "closing"}
  /\ frames < MaxFrames
  /\ frames' = frames + 1
  /\ LET kind == Classify(f, conns[i].event)
         relay == conns[i].relay
         msg == ErrorMessage(f)
     IN CASE kind = "accept" ->
               /\ conns' = [Resolve(conns, i, "accepted", f.id) EXCEPT ![i].sock = CloseSock(@)]
               /\ messageCollector' = messageCollector
          [] kind = "reject" ->
               /\ conns' = [Resolve(conns, i,
                               IF IsRateLimit(msg) THEN "rate-limited" ELSE "rejected", f.id)
                             EXCEPT ![i].sock = CloseSock(@)]
               /\ messageCollector' =
                    IF IsRateLimit(msg)
                      THEN addRelayRejection(messageCollector, relay, <<"Rate limited:">> \o msg)
                      ELSE addRelayRejection(messageCollector, relay, msg)
          [] OTHER ->
               /\ conns' = conns
               /\ messageCollector' = messageCollector
  /\ pub' = Await(pub, conns')
  /\ UNCHANGED <<relays, badUrl, wire>>
  /\ UNCHANGED runVars

OnTimeout_NoEntry(i) ==
  /\ Alive
  /\ conns[i].timer = "armed"
  /\ conns' = [Resolve(conns, i, "timed-out", NoId)
                 EXCEPT ![i].timer = "fired", ![i].sock = CloseSock(@)]
  /\ messageCollector' = messageCollector
  /\ pub' = Await(pub, conns')
  /\ UNCHANGED <<relays, badUrl, wire, frames>>
  /\ UNCHANGED runVars

\* The setTimeout callback, lines 1026-1033.  The timer is never cleared.
OnTimeout(i) ==
  /\ Alive
  /\ conns[i].timer = "armed"
  /\ messageCollector' =
       addConnectionError(messageCollector, conns[i].relay, <<"Timeout waiting for response">>)
  /\ conns' = [Resolve(conns, i, "timed-out", NoId)
                 EXCEPT ![i].timer = "fired", ![i].sock = CloseSock(@)]
  /\ pub' = Await(pub, conns')
  /\ UNCHANGED <<relays, badUrl, wire, frames>>
  /\ UNCHANGED runVars

\* socket.onerror, lines 1036-1043.  An error event is followed by the
\* close event and no further message.
OnError(i) ==
  /\ Alive
  /\ conns[i].sock \in {"connecting", "open", "closing"}
  /\ messageCollector' =
       addConnectionError(messageCollector, conns[i].relay, <<"WebSocket error:">>)
  /\ conns' = [Resolve(conns, i, "transport-error", NoId) EXCEPT ![i].sock = "errored"]
  /\ pub' = Await(pub, conns')
  /\ UNCHANGED <<relays, badUrl, wire, frames>>
  /\ UNCHANGED runVars

OnClose_Reconnect(i) ==
  /\ Alive
  /\ conns[i].sock \in {"open", "closing", "errored"}
  /\ conns' = IF Settled(conns[i])
                THEN [conns EXCEPT ![i].sock = "closed"]
                ELSE [conns EXCEPT ![i].sock = "connecting"]
  /\ pub' = Await(pub, conns')
  /\ UNCHANGED <<relays, badUrl, messageCollector, wire, frames>>
  /\ UNCHANGED runVars

\* socket.onclose, lines 1045-1047.
OnClose(i) ==
  /\ Alive
  /\ conns[i].sock \in {"open", "closing", "errored"}
  /\ conns' = [Resolve(conns, i, "closed", NoId) EXCEPT ![i].sock = "closed"]
  /\ pub' = Await(pub, conns')
  /\ UNCHANGED <<relays, badUrl, messageCollector, wire, frames>>
  /\ UNCHANGED runVars

\* ------------------------------------- a direct call of publishToRelays
\* publishToRelays is exported: a caller hands it a record, a relay list
\* and a collector.
InitPublish ==
  /\ \E n \in 0..MaxRelays : relays = RelayList(n)
  /\ badUrl \in SUBSET {relays[i] : i \in DOMAIN relays}
  /\ pub = [state |-> "idle", event |-> DirectEventId, result |-> FALSE]
  /\ conns = <<>>
  /\ messageCollector = EmptyBag
  /\ wire = {}
  /\ frames = 0
  /\ pc = "direct"
  /\ exitCode = -1
  /\ options = NoOptions
  /\ servers = <<>>
  /\ localFiles = <<>>
  /\ remoteFiles = <<>>
  /\ conclusive = TRUE
  /\ fileComparisonMessage = FALSE
  /\ diff = NoDiff
  /\ forceUpload = "none"
  /\ filesToUpload = <<>>
  /\ results = <<>>
  /\ loop = NoLoop
  /\ log = NoLog
  /\ projectContext = NoProject
  /\ signer = "none"
  /\ publisherPubkey = PubkeyOf("none")
  /\ summary = NoSummary

CallPublish ==
  /\ pc = "direct"
  /\ pub.state = "idle"
  /\ StartPublish(DirectEventId)
  /\ UNCHANGED <<relays, badUrl, wire, frames>>
  /\ UNCHANGED runVars

Open == \E i \in DOMAIN conns : OnOpen(i)

Message == \E i \in DOMAIN conns : \E f \in Frames(conns[i].event) : OnMessage(i, f)

Timeout == \E i \in DOMAIN conns : OnTimeout(i)

Error == \E i \in DOMAIN conns : OnError(i)

Close == \E i \in DOMAIN conns : OnClose(i)

NextPublish == CallPublish \/ Open \/ Message \/ Timeout \/ Error \/ Close

SpecPublish == InitPublish /\ [][NextPublish]_vars

\* The timer is the client's own: once armed it fires.  Nothing obliges a
\* relay to open, answer, fail or close.
FairPublish == SpecPublish /\ WF_vars(CallPublish) /\ WF_vars(Timeout)

\* ------------------------------------------------------- uploadCommand
\* The run from the local scan (line 242) on, with project configuration,
\* signer, relay list and server list already established (lines 92-220).
\* An action is the code between two awaits: it starts when the awaited
\* call answers and runs up to the next await, exit or return.
Paths == 1..MaxPaths
Hashes == 1..MaxHashes

RECURSIVE SortedSeq(_)
SortedSeq(S) ==
  IF S = {} THEN <<>>
  ELSE LET m == CHOOSE x \in S : \A y \in S : x <= y
       IN <<m>> \o SortedSeq(S \ {m})

Range(f) == {f[k] : k \in DOMAIN f}

\* includedFiles of getLocalFiles: one entry per path, each with its hash,
\* ordered by path.  Hashes are only compared for equality, so the hash of
\* the first file is fixed.
LocalFileLists ==
  UNION { { [k \in DOMAIN SortedSeq(S) |->
               [path |-> SortedSeq(S)[k], sha256 |-> h[SortedSeq(S)[k]]]] :
            h \in {g \in [S -> Hashes] : S # {} => g[SortedSeq(S)[1]] = 1} } :
          S \in SUBSET Paths }

\* A remote entry: the announcement record of a path.  sha256 = 0 stands for
\* a record without x tag, hasEvent = FALSE for an entry without its record.
RemoteEntries(p) ==
  { [path |-> p, sha256 |-> h, hasEvent |-> TRUE] : h \in Hashes }
    \cup { [path |-> p, sha256 |-> 1, hasEvent |-> FALSE],
           [path |-> p, sha256 |-> 0, hasEvent |-> TRUE] }

RemoteFileLists ==
  UNION { { [k \in DOMAIN SortedSeq(S) |-> e[SortedSeq(S)[k]]] :
            e \in { g \in [S -> UNION {RemoteEntries(p) : p \in S}] :
                      \A p \in S : g[p].path = p } } : S \in SUBSET Paths }

\* compareFiles(localFiles, remoteFiles): the Diff of the data model.
compareFiles(local, remote) ==
  LET match(l) == \E k \in DOMAIN remote :
                     remote[k].path = l.path /\ remote[k].sha256 = l.sha256
      gone(r) == \A k \in DOMAIN local : local[k].path # r.path
  IN [toTransfer |-> SelectSeq(local, LAMBDA l : ~match(l)),
      existing |-> SelectSeq(local, match),
      toDelete |-> SelectSeq(remote, gone)]

\* Where uploadCommand stands: the await it is suspended at, its loop
\* variables and the exit code.
Goto(c) == pc' = c.pc /\ loop' = c.loop /\ exitCode' = c.exitCode

At(p, lp) == [pc |-> p, loop |-> lp, exitCode |-> exitCode]

\* Deno.exit(code).
Exited(code, lp) == [pc |-> "exited", loop |-> lp, exitCode |-> code]

MetadataKinds_ServerListFirst == <<10063, 10002, 0>>

\* The metadata records in the order of lines 856-954: relay list, server
\* list, profile.
MetadataKinds == <<10002, 10063, 0>>

\* The conditions of line 853 and of lines 856, 886 and 916.
Requested(k) ==
  /\ options.publishRelayList \/ options.publishServerList \/ options.publishProfile
  /\ IF k = 1 THEN options.publishRelayList
     ELSE IF k = 2 THEN options.publishServerList
     ELSE options.publishProfile /\ options.profile

\* Lines 853-965 from metadata record k on: the next requested record is
\* handed to the signer; with none left uploadCommand returns and the
\* process ends with code 0.
MetadataFrom(k, lp) ==
  LET later == {j \in DOMAIN MetadataKinds : j >= k /\ Requested(j)}
  IN IF later = {}
       THEN [pc |-> "done", loop |-> lp, exitCode |-> 0]
       ELSE At("metadataSign", [lp EXCEPT !.k = CHOOSE j \in later : \A l \in later : j <= l])

MissingInfo_RecordOnly(file) == ~file.hasEvent

\* Line 770.
MissingInfo(file) == ~file.hasEvent \/ file.sha256 = 0

\* Lines 768-793 from to-delete entry i on: an entry without record or hash
\* is counted as failed, for the first other entry the deletion record is
\* handed to the signer; after the last entry the metadata step follows.
RECURSIVE PurgeFrom(_, _, _)
PurgeFrom(d, i, lp) ==
  IF i > Len(d.toDelete) THEN MetadataFrom(1, lp)
  ELSE IF MissingInfo(d.toDelete[i])
    THEN PurgeFrom(d, i + 1, [lp EXCEPT !.failed = @ + 1])
    ELSE At("purgeSign", [lp EXCEPT !.i = i])

AfterUploads_NoGuard(d, lp) ==
  IF d.toDelete # <<>> THEN PurgeFrom(d, 1, lp) ELSE MetadataFrom(1, lp)

\* Line 761.
AfterUploads(d, lp) ==
  IF options.purge /\ d.toDelete # <<>> THEN PurgeFrom(d, 1, lp) ELSE MetadataFrom(1, lp)

\* Lines 479-485.
LoadFrom(d, lp) ==
  IF d.toTransfer # <<>> THEN At("loadFile", [lp EXCEPT !.i = 1]) ELSE AfterUploads(d, lp)

NothingToDo_Ambiguous(d, remote, message) ==
  remote = <<>> /\ message /\ ~options.force

NothingToDo_Unchanged(d, remote, message) ==
  d.toTransfer = <<>> /\ (~options.purge \/ d.toDelete = <<>>)

\* The condition of line 414-415.
NothingToDo(d, remote, message) ==
  \/ (d.toTransfer = <<>> /\ (~options.purge \/ d.toDelete = <<>>))
  \/ (remote = <<>> /\ message /\ ~options.force)

\* toTransfer.push(...existing), lines 437 and 460.
Forced(d) == [d EXCEPT !.toTransfer = @ \o d.existing]

\* Lines 394-479: the diff and the decision on it.  With nothing to do, or
\* an ambiguous remote state, a run with a terminal asks, a non-interactive
\* run with force uploads everything and any other run ends.
Compare(remote, message) ==
  LET d == compareFiles(localFiles, remote)
  IN IF ~NothingToDo(d, remote, message)
       THEN diff' = d /\ Goto(LoadFrom(d, loop))
       ELSE IF ~options.nonInteractive
         THEN diff' = d /\ Goto(At("confirm", loop))
         ELSE IF options.force
           THEN diff' = Forced(d) /\ Goto(LoadFrom(Forced(d), loop))
           ELSE diff' = d /\ Goto(Exited(0, loop))

\* The path of 404.html in the source folder, the first in path order.
Path404 == 1

\* 404.html is among the included files.
Has404(files) == \E k \in DOMAIN files : files[k].path = Path404

\* getLocalFiles on a folder that holds 404.html, as it does after the copy
\* of line 233: every file of the folder is included or listed as ignored.
Walked404(files, ignored) == Has404(files) \/ ignored

\* Lines 257-265: what is reported of a scan without included files, "none"
\* for a scan with included files.
EmptyScan(files, ignored) ==
  IF files # <<>> THEN "none" ELSE IF ignored THEN "all-ignored" ELSE "no-files"

Scan_IgnoredExitsOne ==
  /\ pc = "scan"
  /\ \E files \in LocalFileLists, ignored \in BOOLEAN :
       /\ log.copied => Walked404(files, ignored)
       /\ localFiles' = files
       /\ log' = [log EXCEPT !.scanned = TRUE,
                             !.emptyScan = EmptyScan(files, ignored),
                             !.fetchedFor = IF files = <<>> THEN @
                                            ELSE @ \cup {publisherPubkey}]
       /\ IF files = <<>> /\ ignored THEN Goto(Exited(1, loop))
          ELSE IF files = <<>> THEN Goto(Exited(1, loop))
          ELSE Goto(At("fetch", loop))
  /\ UNCHANGED <<projectContext, signer, publisherPubkey, summary>>
  /\ UNCHANGED <<options, servers, remoteFiles, conclusive, fileComparisonMessage,
                 diff, forceUpload, filesToUpload, results>>
  /\ UNCHANGED pubVars

\* Lines 243-322: getLocalFiles answers; with no included file the run
\* ends, otherwise the remote fetch is started.
Scan ==
  /\ pc = "scan"
  /\ \E files \in LocalFileLists, ignored \in BOOLEAN :
       /\ log.copied => Walked404(files, ignored)
       /\ localFiles' = files
       /\ log' = [log EXCEPT !.scanned = TRUE,
                             !.emptyScan = EmptyScan(files, ignored),
                             !.fetchedFor = IF files = <<>> THEN @
                                            ELSE @ \cup {publisherPubkey}]
       /\ IF files = <<>> /\ ignored THEN Goto(Exited(0, loop))
          ELSE IF files = <<>> THEN Goto(Exited(1, loop))
          ELSE Goto(At("fetch", loop))
  /\ UNCHANGED <<projectContext, signer, publisherPubkey, summary>>
  /\ UNCHANGED <<options, servers, remoteFiles, conclusive, fileComparisonMessage,
                 diff, forceUpload, filesToUpload, results>>
  /\ UNCHANGED pubVars

\* Lines 322-369: listRemoteFiles answers; a fetch no relay answered yields
\* the empty list.  With an empty list the first local file is probed on
\* the servers, otherwise the diff follows.
Fetch ==
  /\ pc = "fetch"
  /\ \E files \in RemoteFileLists, answered \in BOOLEAN :
       /\ ~answered => files = <<>>
       /\ remoteFiles' = files
       /\ conclusive' = answered
       /\ IF files = <<>> /\ localFiles[1].sha256 # 0 /\ servers # <<>>
            THEN Goto(At("probe", [loop EXCEPT !.s = 1])) /\ diff' = diff
            ELSE Compare(files, FALSE)
  /\ UNCHANGED <<projectContext, signer, publisherPubkey, summary>>
  /\ UNCHANGED <<options, servers, localFiles, fileComparisonMessage,
                 forceUpload, filesToUpload, results, log>>
  /\ UNCHANGED pubVars

\* Lines 366-392: the answer to one HEAD request.  A 2xx ends the loop; the
\* message is then set when the display manager reports an interactive
\* display (read here only) or when force is not set.
ProbeHead ==
  /\ pc = "probe"
  /\ \E response \in {"ok", "not-ok", "throws"}, interactive \in BOOLEAN :
       /\ log' = [log EXCEPT !.heads = @ \cup {[server |-> servers[loop.s],
                                                 sha256 |-> localFiles[1].sha256,
                                                 ok |-> response = "ok"]}]
       /\ IF response = "ok"
         THEN /\ fileComparisonMessage' = (interactive \/ ~options.force)
              /\ Compare(remoteFiles, interactive \/ ~options.force)
         ELSE /\ fileComparisonMessage' = fileComparisonMessage
              /\ IF loop.s < Len(servers)
                   THEN Goto(At("probe", [loop EXCEPT !.s = @ + 1])) /\ diff' = diff
                   ELSE Compare(remoteFiles, fileComparisonMessage)
  /\ UNCHANGED <<projectContext, signer, publisherPubkey, summary>>
  /\ UNCHANGED <<options, servers, localFiles, remoteFiles, conclusive,
                 forceUpload, filesToUpload, results>>
  /\ UNCHANGED pubVars

\* Lines 426-453: the answer to Confirm.prompt.
Confirm ==
  /\ pc = "confirm"
  /\ \E answer \in BOOLEAN :
       IF answer
         THEN /\ forceUpload' = "yes"
              /\ diff' = Forced(diff)
              /\ Goto(LoadFrom(Forced(diff), loop))
         ELSE /\ forceUpload' = "no"
              /\ diff' = diff
              /\ Goto(Exited(0, loop))
  /\ UNCHANGED <<projectContext, signer, publisherPubkey, summary>>
  /\ UNCHANGED <<options, servers, localFiles, remoteFiles, conclusive,
                 fileComparisonMessage, filesToUpload, results, log>>
  /\ UNCHANGED pubVars

addFileError(mc, path, content) ==
  mc (+) SetToBag({Entry("error", <<"file", path>>, content)})

LoadFile_AbortOnError ==
  /\ pc = "loadFile"
  /\ \E loaded \in BOOLEAN :
       LET file == diff.toTransfer[loop.i]
           list == IF loaded THEN Append(filesToUpload, file) ELSE filesToUpload
       IN /\ filesToUpload' = list
          /\ messageCollector' =
               IF loaded THEN messageCollector
               ELSE addFileError(messageCollector, file.path, <<"load failed">>)
          /\ IF ~loaded
               THEN Goto(Exited(1, loop)) /\ log' = log
               ELSE IF loop.i < Len(diff.toTransfer)
                 THEN Goto(At("loadFile", [loop EXCEPT !.i = @ + 1])) /\ log' = log
                 ELSE /\ Goto(At("uploading", loop))
                      /\ log' = [log EXCEPT !.uploaderCalls = @ + 1]
  /\ UNCHANGED <<projectContext, signer, publisherPubkey, summary>>
  /\ UNCHANGED <<options, servers, localFiles, remoteFiles, conclusive,
                 fileComparisonMessage, diff, forceUpload, results>>
  /\ UNCHANGED <<relays, badUrl, pub, conns, wire, frames>>

\* Lines 483-513: loadFileData answers for one file; after the last file the
\* run ends if nothing was loaded, and else calls processUploads.
LoadFile ==
  /\ pc = "loadFile"
  /\ \E loaded \in BOOLEAN :
       LET file == diff.toTransfer[loop.i]
           list == IF loaded THEN Append(filesToUpload, file) ELSE filesToUpload
       IN /\ filesToUpload' = list
          /\ messageCollector' =
               IF loaded THEN messageCollector
               ELSE addFileError(messageCollector, file.path, <<"load failed">>)
          /\ IF loop.i < Len(diff.toTransfer)
               THEN Goto(At("loadFile", [loop EXCEPT !.i = @ + 1])) /\ log' = log
               ELSE IF list = <<>>
                 THEN Goto(Exited(1, loop)) /\ log' = log
                 ELSE /\ Goto(At("uploading", loop))
                      /\ log' = [log EXCEPT !.uploaderCalls = @ + 1]
  /\ UNCHANGED <<projectContext, signer, publisherPubkey, summary>>
  /\ UNCHANGED <<options, servers, localFiles, remoteFiles, conclusive,
                 fileComparisonMessage, diff, forceUpload, results>>
  /\ UNCHANGED <<relays, badUrl, pub, conns, wire, frames>>

addFileSuccess(mc, path, sha256) ==
  mc (+) SetToBag({Entry("file-success", <<"file", path>>, <<sha256>>)})

\* Lines 540-549 and 685-721: what the summary adds to the collector for the
\* results from position k on.  An interactive display adds a file success
\* for each successful result, another one a file error for each failed one.
RECURSIVE Summarize(_, _, _, _)
Summarize(mc, res, k, interactive) ==
  IF k > Len(res) THEN mc
  ELSE LET file == res[k].file
           next == IF interactive /\ res[k].success
                     THEN addFileSuccess(mc, file.path, file.sha256)
                   ELSE IF ~interactive /\ ~res[k].success
                     THEN addFileError(mc, file.path, <<"upload failed">>)
                   ELSE mc
       IN Summarize(next, res, k + 1, interactive)

\* Lines 505-761: processUploads answers with one result per file handed to
\* it (the PUT requests are its own, as are the event ids of the results,
\* which the model leaves out); the summary is printed, for the kind
\* of display the display manager reports.
ProcessUploads ==
  /\ pc = "uploading"
  /\ \E ok \in [DOMAIN filesToUpload -> BOOLEAN], interactive \in BOOLEAN :
       LET res == [k \in DOMAIN filesToUpload |->
                     [file |-> filesToUpload[k], success |-> ok[k]]]
       IN /\ results' = res
          /\ messageCollector' = Summarize(messageCollector, res, 1, interactive)
  /\ Goto(AfterUploads(diff, loop))
  /\ UNCHANGED <<projectContext, signer, publisherPubkey, summary>>
  /\ UNCHANGED <<options, servers, localFiles, remoteFiles, conclusive,
                 fileComparisonMessage, diff, forceUpload, filesToUpload, log>>
  /\ UNCHANGED <<relays, badUrl, pub, conns, wire, frames>>

\* publishToRelays as uploadCommand meets it at an await: the call returns
\* when every relay of the list has answered in one of the ways the handlers
\* above allow.  An answer is the outcome that settled the relay's promise,
\* whether the EVENT frame went out (line 988) and the entry the handler
\* left in the collector; there is one answer for each combination of
\* accepted or not, frame sent or not, entry left or not that they allow.
\* What a timer adds to the collector after the return is not part of the
\* answer: uploadCommand does not read the collector after line 683.
NoEntry == Entry("none", 0, <<>>)

Answers(relay) ==
  IF relay \in badUrl
    THEN {[outcome |-> "ctor-failed", sent |-> 0,
           entry |-> Entry("connection-error", relay, <<"Connection failed:">>)]}
    ELSE {[outcome |-> "accepted", sent |-> 1, entry |-> NoEntry],
          [outcome |-> "rejected", sent |-> 1,
           entry |-> Entry("relay-rejection", relay, <<"blocked:", "spam">>)],
          [outcome |-> "transport-error", sent |-> 0,
           entry |-> Entry("connection-error", relay, <<"WebSocket error:">>)],
          [outcome |-> "closed", sent |-> 1, entry |-> NoEntry]}

AnswerSets ==
  {a \in [DOMAIN relays -> UNION {Answers(relays[i]) : i \in DOMAIN relays}] :
     \A i \in DOMAIN relays : a[i] \in Answers(relays[i])}

PublishToRelays(eventId, answer) ==
  LET cs == [i \in DOMAIN relays |->
               [NewConn(relays[i], eventId, relays[i] \in badUrl) EXCEPT
                  !.outcome = answer[i].outcome,
                  !.sent = answer[i].sent,
                  !.ackId = IF answer[i].outcome = "accepted" THEN eventId ELSE NoId,
                  !.sock = IF answer[i].outcome = "ctor-failed" THEN "failed" ELSE "closed"]]
  IN /\ conns' = cs
     /\ messageCollector' = messageCollector (+)
          SetToBag({answer[i].entry : i \in DOMAIN relays} \ {NoEntry})
     /\ wire' = wire \cup
          {<<relays[i], eventId>> : i \in {j \in DOMAIN relays : answer[j].sent = 1}}
     /\ pub' = [state |-> "returned", event |-> eventId, result |-> PublishResult(cs)]

\* The id of the deletion record for a remote entry.
DeletionId(file) == EventId(5, file.path)

\* A sign request the signer answered with an error: the record asked for
\* and, for a delete authorization, the server and path it was meant for.
Refusal(id, server, path) == [id |-> id, server |-> server, path |-> path]

\* Lines 793-796 and 840-844: the signer answers; the signed deletion record
\* is handed to publishToRelays, a signer error counts the entry as failed.
PurgeSign ==
  /\ pc = "purgeSign"
  /\ \E signed \in BOOLEAN :
       LET file == diff.toDelete[loop.i]
       IN IF signed
            THEN /\ pub' = [state |-> "running", event |-> DeletionId(file), result |-> FALSE]
                 /\ log' = [log EXCEPT !.signed = @ \cup {DeletionId(file)},
                                       !.handed = @ \cup {DeletionId(file)}]
                 /\ Goto(At("purgePublish", loop))
            ELSE /\ Goto(PurgeFrom(diff, loop.i + 1, [loop EXCEPT !.failed = @ + 1]))
                 /\ log' = [log EXCEPT !.refused = @ \cup {Refusal(DeletionId(file), 0, file.path)}]
                 /\ pub' = pub
  /\ UNCHANGED <<projectContext, signer, publisherPubkey, summary>>
  /\ UNCHANGED <<options, servers, localFiles, remoteFiles, conclusive,
                 fileComparisonMessage, diff, forceUpload, filesToUpload, results>>
  /\ UNCHANGED <<relays, badUrl, conns, messageCollector, wire, frames>>

\* Lines 799-839 from server s on: the delete authorization for the server
\* is handed to the signer; after the last server the entry is completed.
ServerFrom(s, lp) ==
  IF s > Len(servers)
    THEN PurgeFrom(diff, lp.i + 1, [lp EXCEPT !.completed = @ + 1])
    ELSE At("purgeAuth", [lp EXCEPT !.s = s])

\* Lines 796-815: publishToRelays returns; its result is not read.
PurgePublished ==
  /\ pc = "purgePublish"
  /\ \E answer \in AnswerSets : PublishToRelays(pub.event, answer)
  /\ Goto(ServerFrom(1, loop))
  /\ UNCHANGED <<projectContext, signer, publisherPubkey, summary>>
  /\ UNCHANGED <<options, servers, localFiles, remoteFiles, conclusive,
                 fileComparisonMessage, diff, forceUpload, filesToUpload, results, log>>
  /\ UNCHANGED <<relays, badUrl, frames>>

\* The id of the delete authorization for a hash.
DeleteAuthId(file) == EventId(24242, file.sha256)

PurgeAuth_NoInnerCatch ==
  /\ pc = "purgeAuth"
  /\ \E signed \in BOOLEAN :
       LET file == diff.toDelete[loop.i]
       IN IF signed
            THEN /\ log' = [log EXCEPT
                     !.signed = @ \cup {DeleteAuthId(file)},
                     !.deletes = @ \cup {[server |-> servers[loop.s],
                                          sha256 |-> file.sha256,
                                          path |-> file.path]}]
                 /\ Goto(At("purgeDelete", loop))
            ELSE /\ Goto(PurgeFrom(diff, loop.i + 1, [loop EXCEPT !.failed = @ + 1]))
                 /\ log' = [log EXCEPT !.refused = @ \cup
                              {Refusal(DeleteAuthId(file), servers[loop.s], file.path)}]
  /\ UNCHANGED <<projectContext, signer, publisherPubkey, summary>>
  /\ UNCHANGED <<options, servers, localFiles, remoteFiles, conclusive,
                 fileComparisonMessage, diff, forceUpload, filesToUpload, results>>
  /\ UNCHANGED pubVars

\* Lines 815-835: the signer answers for the delete authorization; with it
\* the DELETE request is sent, a signer error skips the server.
PurgeAuth ==
  /\ pc = "purgeAuth"
  /\ \E signed \in BOOLEAN :
       LET file == diff.toDelete[loop.i]
       IN IF signed
            THEN /\ log' = [log EXCEPT
                     !.signed = @ \cup {DeleteAuthId(file)},
                     !.deletes = @ \cup {[server |-> servers[loop.s],
                                          sha256 |-> file.sha256,
                                          path |-> file.path]}]
                 /\ Goto(At("purgeDelete", loop))
            ELSE /\ Goto(ServerFrom(loop.s + 1, loop))
                 /\ log' = [log EXCEPT !.refused = @ \cup
                              {Refusal(DeleteAuthId(file), servers[loop.s], file.path)}]
  /\ UNCHANGED <<projectContext, signer, publisherPubkey, summary>>
  /\ UNCHANGED <<options, servers, localFiles, remoteFiles, conclusive,
                 fileComparisonMessage, diff, forceUpload, filesToUpload, results>>
  /\ UNCHANGED pubVars

\* Lines 819-839: the server answers the DELETE request (2xx, another
\* status, or no answer at all); the loop goes on in each case.
PurgeDelete ==
  /\ pc = "purgeDelete"
  /\ Goto(ServerFrom(loop.s + 1, loop))
  /\ UNCHANGED <<projectContext, signer, publisherPubkey, summary>>
  /\ UNCHANGED <<options, servers, localFiles, remoteFiles, conclusive,
                 fileComparisonMessage, diff, forceUpload, filesToUpload, results, log>>
  /\ UNCHANGED pubVars

MetadataSign_AbortOnError ==
  /\ pc = "metadataSign"
  /\ \E signed \in BOOLEAN :
       LET id == EventId(MetadataKinds[loop.k], 0)
       IN IF signed
            THEN /\ pub' = [state |-> "running", event |-> id, result |-> FALSE]
                 /\ log' = [log EXCEPT !.signed = @ \cup {id}, !.handed = @ \cup {id}]
                 /\ Goto(At("metadataPublish", loop))
            ELSE /\ Goto(Exited(1, loop))
                 /\ log' = [log EXCEPT !.refused = @ \cup {Refusal(id, 0, 0)}]
                 /\ pub' = pub
  /\ UNCHANGED <<projectContext, signer, publisherPubkey, summary>>
  /\ UNCHANGED <<options, servers, localFiles, remoteFiles, conclusive,
                 fileComparisonMessage, diff, forceUpload, filesToUpload, results>>
  /\ UNCHANGED <<relays, badUrl, conns, messageCollector, wire, frames>>

\* Lines 870-872, 900-902, 940-942 and their catch blocks: the signer
\* answers; the signed record is handed to publishToRelays, a signer error
\* skips the record.
MetadataSign ==
  /\ pc = "metadataSign"
  /\ \E signed \in BOOLEAN :
       LET id == EventId(MetadataKinds[loop.k], 0)
       IN IF signed
            THEN /\ pub' = [state |-> "running", event |-> id, result |-> FALSE]
                 /\ log' = [log EXCEPT !.signed = @ \cup {id}, !.handed = @ \cup {id}]
                 /\ Goto(At("metadataPublish", loop))
            ELSE /\ Goto(MetadataFrom(loop.k + 1, loop))
                 /\ log' = [log EXCEPT !.refused = @ \cup {Refusal(id, 0, 0)}]
                 /\ pub' = pub
  /\ UNCHANGED <<projectContext, signer, publisherPubkey, summary>>
  /\ UNCHANGED <<options, servers, localFiles, remoteFiles, conclusive,
                 fileComparisonMessage, diff, forceUpload, filesToUpload, results>>
  /\ UNCHANGED <<relays, badUrl, conns, messageCollector, wire, frames>>

\* Lines 872-879, 902-909, 942-949: publishToRelays returns.
MetadataPublished ==
  /\ pc = "metadataPublish"
  /\ \E answer \in AnswerSets : PublishToRelays(pub.event, answer)
  /\ Goto(MetadataFrom(loop.k + 1, loop))
  /\ UNCHANGED <<projectContext, signer, publisherPubkey, summary>>
  /\ UNCHANGED <<options, servers, localFiles, remoteFiles, conclusive,
                 fileComparisonMessage, diff, forceUpload, filesToUpload, results, log>>
  /\ UNCHANGED <<relays, badUrl, frames>>

ServerList(n) == [i \in 1..n |-> i]

\* The options the run reads from line 242 on, with projectData.profile
\* (read only behind publishProfile, line 916).
Options ==
  { [NoOptions EXCEPT !.force = o.force, !.purge = o.purge,
                      !.nonInteractive = o.nonInteractive,
                      !.publishRelayList = o.publishRelayList,
                      !.publishServerList = o.publishServerList,
                      !.publishProfile = o.publishProfile, !.profile = o.profile] :
      o \in {q \in [force : BOOLEAN, purge : BOOLEAN, nonInteractive : BOOLEAN,
                     publishRelayList : BOOLEAN, publishServerList : BOOLEAN,
                     publishProfile : BOOLEAN, profile : BOOLEAN] :
                q.profile => q.publishProfile} }

\* The project of a run that reached line 242 without a credential on the
\* command line: a project file naming a bunker whose nbunksec is stored.
ProjectAtScan(nr, ns) ==
  [NoProject EXCEPT !.projectData = "file", !.bunkerPubkey = TRUE, !.nbunk = TRUE,
                    !.relays = nr, !.servers = ns]

\* The state at line 242: options parsed, signer connected, relay list and a
\* server list of at least one server resolved, nothing scanned, fetched,
\* signed or sent.
Init ==
  /\ \E n \in 0..MaxRunRelays : relays = RelayList(n)
  /\ badUrl \in SUBSET Range(relays)
  /\ pub = [state |-> "idle", event |-> NoId, result |-> FALSE]
  /\ conns = <<>>
  /\ messageCollector = EmptyBag
  /\ wire = {}
  /\ frames = 0
  /\ pc = "scan"
  /\ exitCode = -1
  /\ options \in Options
  /\ \E n \in 1..MaxServers : servers = ServerList(n)
  /\ localFiles = <<>>
  /\ remoteFiles = <<>>
  /\ conclusive = TRUE
  /\ fileComparisonMessage = FALSE
  /\ diff = NoDiff
  /\ forceUpload = "none"
  /\ filesToUpload = <<>>
  /\ results = <<>>
  /\ loop = NoLoop
  /\ log = NoLog
  /\ projectContext = ProjectAtScan(Len(relays), Len(servers))
  /\ signer = "stored-nbunksec"
  /\ publisherPubkey = PubkeyOf("stored-nbunksec")
  /\ summary = NoSummary

Next ==
  \/ Scan \/ Fetch \/ ProbeHead \/ Confirm \/ LoadFile \/ ProcessUploads
  \/ PurgeSign \/ PurgePublished \/ PurgeAuth \/ PurgeDelete
  \/ MetadataSign \/ MetadataPublished

Spec == Init /\ [][Next]_vars

\* ------------------------------------- the setup of a run, lines 86-242
\* What readProjectFile returns in a non-interactive run: nothing, and the
\* default of line 93 takes its place, or the project file's data.
ProjectFiles ==
  { [NoProject EXCEPT !.projectData = "file", !.bunkerPubkey = b, !.nbunk = n,
                       !.fallback = f, !.relays = nr, !.servers = ns] :
      b \in BOOLEAN, n \in BOOLEAN, f \in BOOLEAN,
      nr \in 0..MaxRunRelays, ns \in 0..MaxServers }

DefaultProject == [NoProject EXCEPT !.projectData = "default"]

readProjectFile ==
  {DefaultProject} \cup {c \in ProjectFiles : c.nbunk => c.bunkerPubkey}

\* What setupProject returns in an interactive run: a context without
\* project data, or project data with or without a private key.
setupProject ==
  {[NoProject EXCEPT !.projectData = "null"]}
    \cup { [c EXCEPT !.privateKey = k] :
             c \in readProjectFile \ {DefaultProject}, k \in BOOLEAN }

AfterSigner_NoCopy(ctx) == At("scan", loop)

\* Lines 224-242.
AfterSigner(ctx) ==
  IF options.fallback \/ ctx.fallback THEN At("copy", loop) ELSE At("scan", loop)

SelectSigner_NoCheck(ctx) ==
  IF ctx.projectData = "null" THEN [next |-> Exited(1, loop), signer |-> "none"]
  ELSE IF options.privatekey THEN [next |-> AfterSigner(ctx), signer |-> "privatekey"]
  ELSE IF options.nbunksec THEN [next |-> At("importNbunk", loop), signer |-> "none"]
  ELSE IF options.bunker THEN [next |-> At("connectBunker", loop), signer |-> "none"]
  ELSE IF ctx.privateKey THEN [next |-> AfterSigner(ctx), signer |-> "project-key"]
  ELSE IF ctx.bunkerPubkey
    THEN IF ctx.nbunk THEN [next |-> At("importStored", loop), signer |-> "none"]
         ELSE [next |-> At("promptBunker", loop), signer |-> "none"]
  ELSE [next |-> AfterSigner(ctx), signer |-> "none"]

SelectSigner_ProjectKeyFirst(ctx) ==
  IF ctx.projectData = "null" THEN [next |-> Exited(1, loop), signer |-> "none"]
  ELSE IF options.privatekey THEN [next |-> AfterSigner(ctx), signer |-> "privatekey"]
  ELSE IF options.nbunksec THEN [next |-> At("importNbunk", loop), signer |-> "none"]
  ELSE IF ctx.privateKey THEN [next |-> AfterSigner(ctx), signer |-> "project-key"]
  ELSE IF options.bunker THEN [next |-> At("connectBunker", loop), signer |-> "none"]
  ELSE IF ctx.bunkerPubkey
    THEN IF ctx.nbunk THEN [next |-> At("importStored", loop), signer |-> "none"]
         ELSE [next |-> At("promptBunker", loop), signer |-> "none"]
  ELSE [next |-> Exited(1, loop), signer |-> "none"]

\* Lines 98-186 up to the first await: where the run goes with the project
\* context ctx, and the signer it has by then.
SelectSigner(ctx) ==
  IF ctx.projectData = "null" THEN [next |-> Exited(1, loop), signer |-> "none"]
  ELSE IF options.privatekey THEN [next |-> AfterSigner(ctx), signer |-> "privatekey"]
  ELSE IF options.nbunksec THEN [next |-> At("importNbunk", loop), signer |-> "none"]
  ELSE IF options.bunker THEN [next |-> At("connectBunker", loop), signer |-> "none"]
  ELSE IF ctx.privateKey THEN [next |-> AfterSigner(ctx), signer |-> "project-key"]
  ELSE IF ctx.bunkerPubkey
    THEN IF ctx.nbunk THEN [next |-> At("importStored", loop), signer |-> "none"]
         ELSE [next |-> At("promptBunker", loop), signer |-> "none"]
  ELSE [next |-> Exited(1, loop), signer |-> "none"]

\* Lines 188-194, reached with the signer: the relay and server lists come
\* from the command line if given there and from the project otherwise.
Configure(c, ctx) ==
  IF c.pc \in {"copy", "scan"}
    THEN /\ relays' = RelayList(IF options.relays > 0 THEN options.relays ELSE ctx.relays)
         /\ servers' = ServerList(IF options.servers > 0 THEN options.servers ELSE ctx.servers)
    ELSE UNCHANGED <<relays, servers>>

setupFixed ==
  <<badUrl, pub, conns, messageCollector, wire, frames, options, localFiles, remoteFiles,
    conclusive, fileComparisonMessage, diff, forceUpload, filesToUpload, results, summary>>

\* Lines 86-101 and what follows up to the next await: the project is read
\* (non-interactive) or set up (interactive); setupProject may also throw.
Project ==
  /\ pc = "project"
  /\ \/ \E ctx \in (IF options.nonInteractive THEN readProjectFile ELSE setupProject) :
          /\ projectContext' = ctx
          /\ signer' = SelectSigner(ctx).signer
          /\ publisherPubkey' = PubkeyOf(SelectSigner(ctx).signer)
          /\ Goto(SelectSigner(ctx).next)
          /\ Configure(SelectSigner(ctx).next, ctx)
     \/ /\ ~options.nonInteractive
        /\ Goto(Exited(1, loop))
        /\ UNCHANGED <<projectContext, signer, publisherPubkey, relays, servers>>
  /\ UNCHANGED <<setupFixed, log>>

\* Lines 113-123: importFromNbunk and getPublicKey answer for the nbunksec
\* of the command line; the catch ends the run.
ImportNbunk ==
  /\ pc = "importNbunk"
  /\ \E imported \in BOOLEAN :
       IF imported
         THEN /\ signer' = "nbunksec"
              /\ publisherPubkey' = PubkeyOf("nbunksec")
              /\ Goto(AfterSigner(projectContext))
              /\ Configure(AfterSigner(projectContext), projectContext)
         ELSE /\ signer' = signer
              /\ publisherPubkey' = publisherPubkey
              /\ Goto(Exited(1, loop))
              /\ UNCHANGED <<relays, servers>>
  /\ UNCHANGED <<setupFixed, log, projectContext>>

\* Lines 139-165: importFromNbunk and getPublicKey answer for the stored
\* nbunksec; the catch asks for a bunker URL.
ImportStored ==
  /\ pc = "importStored"
  /\ \E imported \in BOOLEAN :
       IF imported
         THEN /\ signer' = "stored-nbunksec"
              /\ publisherPubkey' = PubkeyOf("stored-nbunksec")
              /\ Goto(AfterSigner(projectContext))
              /\ Configure(AfterSigner(projectContext), projectContext)
         ELSE /\ signer' = signer
              /\ publisherPubkey' = publisherPubkey
              /\ Goto(At("promptBunker", loop))
              /\ UNCHANGED <<relays, servers>>
  /\ UNCHANGED <<setupFixed, log, projectContext>>

\* Lines 152-160 and 169-177: Input.prompt answers with a bunker URL, or
\* throws and the catch of line 967 ends the run.
PromptBunker ==
  /\ pc = "promptBunker"
  /\ \E answered \in BOOLEAN :
       IF answered THEN Goto(At("connectPrompted", loop)) ELSE Goto(Exited(1, loop))
  /\ UNCHANGED <<setupFixed, log, projectContext, signer, publisherPubkey, relays, servers>>

\* Lines 126-129, 161-164 and 178-181: createNip46ClientFromUrl answers for
\* the URL of the command line or of the prompt; if it throws the catch of
\* line 967 ends the run.
ConnectBunker ==
  /\ pc \in {"connectBunker", "connectPrompted"}
  /\ \E connected \in BOOLEAN :
       IF connected
         THEN /\ signer' = IF pc = "connectBunker" THEN "bunker" ELSE "prompted-bunker"
              /\ publisherPubkey' = PubkeyOf(signer')
              /\ Goto(AfterSigner(projectContext))
              /\ Configure(AfterSigner(projectContext), projectContext)
         ELSE /\ signer' = signer
              /\ publisherPubkey' = publisherPubkey
              /\ Goto(Exited(1, loop))
              /\ UNCHANGED <<relays, servers>>
  /\ UNCHANGED <<setupFixed, log, projectContext>>

\* Lines 224-242: the copy of the fallback file ends; if it throws the catch
\* of line 967 ends the run.
CopyFallback ==
  /\ pc = "copy"
  /\ \E copied \in BOOLEAN :
       IF copied
         THEN log' = [log EXCEPT !.copied = TRUE] /\ Goto(At("scan", loop))
         ELSE log' = log /\ Goto(Exited(1, loop))
  /\ UNCHANGED <<setupFixed, projectContext, signer, publisherPubkey, relays, servers>>

\* The command line of a run, as far as lines 86-242 read it: relays and
\* servers are the lengths of the lists given there, 0 if none is given.
SetupOptions ==
  { [NoOptions EXCEPT !.nonInteractive = ni, !.privatekey = k, !.nbunksec = n,
                      !.bunker = b, !.fallback = f, !.relays = nr, !.servers = ns] :
      ni \in BOOLEAN, k \in BOOLEAN, n \in BOOLEAN, b \in BOOLEAN, f \in BOOLEAN,
      nr \in 0..MaxRunRelays, ns \in 0..MaxServers }

\* The state at line 86.
InitSetup ==
  /\ relays = <<>>
  /\ badUrl = {}
  /\ pub = [state |-> "idle", event |-> NoId, result |-> FALSE]
  /\ conns = <<>>
  /\ messageCollector = EmptyBag
  /\ wire = {}
  /\ frames = 0
  /\ pc = "project"
  /\ exitCode = -1
  /\ options \in SetupOptions
  /\ servers = <<>>
  /\ localFiles = <<>>
  /\ remoteFiles = <<>>
  /\ conclusive = TRUE
  /\ fileComparisonMessage = FALSE
  /\ diff = NoDiff
  /\ forceUpload = "none"
  /\ filesToUpload = <<>>
  /\ results = <<>>
  /\ loop = NoLoop
  /\ log = NoLog
  /\ projectContext = NoProject
  /\ signer = "none"
  /\ publisherPubkey = PubkeyOf("none")
  /\ summary = NoSummary

NextSetup ==
  \/ Project \/ ImportNbunk \/ ImportStored \/ PromptBunker \/ ConnectBunker
  \/ CopyFallback \/ Scan

SpecSetup == InitSetup /\ [][NextSetup]_vars

\* ------------------------------------------------- the purge of a run
\* A run at line 761 with the purge option, one local file that matches its
\* remote record (nothing was to upload) and remote records of other paths:
\* the state in which Fetch leaves such a run.
PurgeRemoteLists ==
  UNION { { <<[path |-> 1, sha256 |-> 1, hasEvent |-> TRUE]>> \o
              [k \in DOMAIN SortedSeq(S) |-> e[SortedSeq(S)[k]]] :
            e \in { g \in [S -> UNION {RemoteEntries(p) : p \in S}] :
                      \A p \in S : g[p].path = p } } :
          S \in (SUBSET (2..MaxPurgePaths)) \ {{}} }

InitPurge ==
  /\ \E n \in 0..MaxRunRelays : relays = RelayList(n)
  /\ badUrl \in SUBSET Range(relays)
  /\ pub = [state |-> "idle", event |-> NoId, result |-> FALSE]
  /\ conns = <<>>
  /\ messageCollector = EmptyBag
  /\ wire = {}
  /\ frames = 0
  /\ options = [NoOptions EXCEPT !.purge = TRUE]
  /\ \E n \in 1..MaxPurgeServers : servers = ServerList(n)
  /\ localFiles = <<[path |-> 1, sha256 |-> 1]>>
  /\ remoteFiles \in PurgeRemoteLists
  /\ conclusive = TRUE
  /\ fileComparisonMessage = FALSE
  /\ diff = compareFiles(localFiles, remoteFiles)
  /\ forceUpload = "none"
  /\ filesToUpload = <<>>
  /\ results = <<>>
  /\ log = [NoLog EXCEPT !.fetchedFor = {PubkeyOf("stored-nbunksec")}, !.scanned = TRUE]
  /\ projectContext = ProjectAtScan(Len(relays), Len(servers))
  /\ signer = "stored-nbunksec"
  /\ publisherPubkey = PubkeyOf("stored-nbunksec")
  /\ summary = NoSummary
  /\ exitCode \in {-1, 0}
  /\ LET c == AfterUploads(diff, NoLoop)
     IN /\ pc = c.pc /\ loop = c.loop /\ exitCode = c.exitCode
        /\ c.pc # "done" => exitCode = -1

NextPurge == PurgeSign \/ PurgePublished \/ PurgeAuth \/ PurgeDelete

SpecPurge == InitPurge /\ [][NextPurge]_vars

\* ------------------------------- the metadata records, lines 853-955
\* Lines 205-206 and 217-218: what the configuration summary shows for the
\* relay list and the server list.
ConfigurationSummary(opts, projectData) ==
  [publishRelayList |-> opts.publishRelayList \/ projectData.publishRelayList,
   publishServerList |-> opts.publishServerList \/ projectData.publishServerList]

\* The command line and the project file of a run, as far as the metadata
\* part reads them.
MetadataOptions == {o \in Options : ~o.force /\ ~o.purge /\ o.nonInteractive}

MetadataProjects ==
  { [ProjectAtScan(nr, 1) EXCEPT !.publishRelayList = r, !.publishServerList = s] :
      nr \in 0..MaxRunRelays, r \in BOOLEAN, s \in BOOLEAN }

\* A run at line 853 that uploaded its one local file, the remote record of
\* which had another hash: the state in which ProcessUploads leaves it.
InitMetadata ==
  /\ \E n \in 0..MaxRunRelays : relays = RelayList(n)
  /\ badUrl \in SUBSET Range(relays)
  /\ pub = [state |-> "idle", event |-> NoId, result |-> FALSE]
  /\ conns = <<>>
  /\ wire = {}
  /\ frames = 0
  /\ options \in MetadataOptions
  /\ servers = ServerList(1)
  /\ localFiles = <<[path |-> 1, sha256 |-> 1]>>
  /\ remoteFiles = <<[path |-> 1, sha256 |-> 2, hasEvent |-> TRUE]>>
  /\ conclusive = TRUE
  /\ fileComparisonMessage = FALSE
  /\ diff = compareFiles(localFiles, remoteFiles)
  /\ forceUpload = "none"
  /\ filesToUpload = localFiles
  /\ \E ok \in BOOLEAN : results = <<[file |-> localFiles[1], success |-> ok]>>
  /\ messageCollector = Summarize(EmptyBag, results, 1, TRUE)
  /\ log = [NoLog EXCEPT !.fetchedFor = {PubkeyOf("stored-nbunksec")},
                         !.scanned = TRUE, !.uploaderCalls = 1]
  /\ projectContext \in {c \in MetadataProjects : c.relays = Len(relays)}
  /\ signer = "stored-nbunksec"
  /\ publisherPubkey = PubkeyOf("stored-nbunksec")
  /\ summary = NoSummary
  /\ exitCode \in {-1, 0}
  /\ LET c == AfterUploads(diff, NoLoop)
     IN /\ pc = c.pc /\ loop = c.loop /\ exitCode = c.exitCode
        /\ c.pc # "done" => exitCode = -1

NextMetadata == MetadataSign \/ MetadataPublished

SpecMetadata == InitMetadata /\ [][NextMetadata]_vars

\* ------------------------------------ the error summary, lines 685-739
\* An error text is a sequence of lines, a line a sequence of tokens, so
\* that includes, split and the two regular expressions are computed.
Tags == {"<!DOCTYPE html>", "<pre>", "</pre>", "<body>"}

\* The match of /https:\/\/[^\/:\s]+/ inside a token that contains
\* "https://"; "" if the token has no match.
Host(token) ==
  CASE token \in {"https://s1", "https://s1/upload"} -> "https://s1"
    [] token = "https://s2:443" -> "https://s2"
    [] OTHER -> ""

UrlTokens == {"https://s1", "https://s1/upload", "https://s2:443", "https://"}

\* The error texts of failed results; <<>> is a missing or empty text.
RawErrors ==
  { <<>>,
    << <<"timeout">> >>,
    << <<"Forbidden">> >>,
    << <<"<!DOCTYPE html>">>, <<"<pre>", "Forbidden", "</pre>">> >>,
    << <<"<!DOCTYPE html>", "<body>">> >>,
    << <<"Bad", "gateway">>, <<"<!DOCTYPE html>">> >>,
    << <<"PUT", "https://s1/upload", "failed">> >>,
    << <<"https://", "https://s1", "refused">> >>,
    << <<"Failed to upload to any server", "(2", "errors)">> >> }

RECURSIVE Flat(_)
Flat(text) == IF text = <<>> THEN <<>> ELSE Head(text) \o Flat(Tail(text))

IncludesText(text, token) == Includes(Flat(text), token)

\* errorMessage.match(/<pre>([^<]+)<\/pre>/): the tokens between the first
\* <pre> and a </pre> with no tag in between; <<>> if there is no match.
PreMatch(text) ==
  LET f == Flat(text)
      matches == { ij \in (DOMAIN f) \X (DOMAIN f) :
                     /\ ij[1] + 1 < ij[2]
                     /\ f[ij[1]] = "<pre>" /\ f[ij[2]] = "</pre>"
                     /\ \A k \in (ij[1] + 1)..(ij[2] - 1) : f[k] \notin Tags }
  IN IF matches = {} THEN <<>>
     ELSE LET m == CHOOSE ij \in matches : \A o \in matches : ij[1] <= o[1]
          IN SubSeq(f, m[1] + 1, m[2] - 1)

\* errorMessage.match(/https:\/\/[^\/:\s]+/): the first match, "" if none.
ServerMatch(text) ==
  LET f == Flat(text)
      hits == {k \in DOMAIN f : f[k] \in UrlTokens /\ Host(f[k]) # ""}
  IN IF hits = {} THEN "" ELSE Host(f[CHOOSE k \in hits : \A o \in hits : k <= o])

\* Lines 690-714: the text a failed result is filed under.
NormalizeError(error) ==
  LET given == IF error = <<>> THEN << <<"Unknown error">> >> ELSE error
      html == IF ~IncludesText(given, "<!DOCTYPE html>") THEN given
              ELSE IF PreMatch(given) # <<>> THEN <<PreMatch(given)>>
              ELSE IF Includes(given[1], "<!DOCTYPE html>")
                THEN << <<"Server returned HTML error page">> >>
              ELSE <<given[1]>>
      url == IF (\E t \in UrlTokens : IncludesText(html, t)) /\ ServerMatch(html) # ""
               THEN << <<"Failed to upload to", ServerMatch(html)>> >>
               ELSE html
  IN IF IncludesText(url, "Failed to upload to any server")
       THEN << <<"Failed to upload to any server">> >>
       ELSE url

\* Lines 688-719: errorGroups, a Map in insertion order, after the failed
\* results from position k on were filed.
RECURSIVE GroupErrors(_, _, _)
GroupErrors(failedResults, k, errorGroups) ==
  IF k > Len(failedResults) THEN errorGroups
  ELSE LET errorMessage == NormalizeError(failedResults[k].error)
           path == failedResults[k].file.path
           at == {g \in DOMAIN errorGroups : errorGroups[g].error = errorMessage}
           next == IF at = {}
                     THEN Append(errorGroups, [error |-> errorMessage, paths |-> <<path>>])
                     ELSE [errorGroups EXCEPT ![CHOOSE g \in at : TRUE].paths = Append(@, path)]
       IN GroupErrors(failedResults, k + 1, next)

Line(kind, error, path, count) ==
  [kind |-> kind, error |-> error, path |-> path, count |-> count]

PathLines_ThreeAndRest(error, paths, verbose) ==
  LET listed(n) == [k \in 1..n |-> Line("path", error, paths[k], 0)]
  IN IF verbose \/ Len(paths) <= 3 THEN listed(Len(paths))
     ELSE listed(3) \o <<Line("more", error, 0, Len(paths) - 2)>>

\* Lines 726-738: the lines printed under the head line of a group.
PathLines(error, paths, verbose) ==
  LET listed(n) == [k \in 1..n |-> Line("path", error, paths[k], 0)]
  IN IF verbose \/ Len(paths) <= 3 THEN listed(Len(paths))
     ELSE listed(2) \o <<Line("more", error, 0, Len(paths) - 2)>>

\* Lines 723-739: the lines printed for the groups from position g on.
RECURSIVE SummaryLines(_, _, _)
SummaryLines(errorGroups, g, verbose) ==
  IF g > Len(errorGroups) THEN <<>>
  ELSE <<Line("group", errorGroups[g].error, 0, Len(errorGroups[g].paths))>>
         \o PathLines(errorGroups[g].error, errorGroups[g].paths, verbose)
         \o SummaryLines(errorGroups, g + 1, verbose)

\* Lines 685-739, reached in a run without interactive display when some
\* result failed: the summary of the results is printed.
PrintErrorSummary ==
  /\ pc = "summary"
  /\ \E r \in DOMAIN results : ~results[r].success
  /\ LET failedResults == SelectSeq(results, LAMBDA r : ~r.success)
         errorGroups == GroupErrors(failedResults, 1, <<>>)
     IN \E verbose \in BOOLEAN :
          summary' = [groups |-> errorGroups, verbose |-> verbose,
                      lines |-> SummaryLines(errorGroups, 1, verbose)]
  /\ Goto(At("summarized", loop))
  /\ UNCHANGED <<pubVars, options, servers, localFiles, remoteFiles, conclusive,
                 fileComparisonMessage, diff, forceUpload, filesToUpload, results,
                 log, projectContext, signer, publisherPubkey>>

\* What processUploads returned for the files 1..n: each result is a
\* success or carries an error text.
ResultLists ==
  UNION { { [k \in 1..n |-> [file |-> [path |-> k, sha256 |-> 1],
                              success |-> e[k] = << <<"ok">> >>,
                              error |-> IF e[k] = << <<"ok">> >> THEN <<>> ELSE e[k]]] :
            e \in [1..n -> RawErrors \cup {<< <<"ok">> >>}] } : n \in 1..MaxResults }

\* The state at line 685.
InitSummary ==
  /\ relays = <<>>
  /\ badUrl = {}
  /\ pub = [state |-> "idle", event |-> NoId, result |-> FALSE]
  /\ conns = <<>>
  /\ messageCollector = EmptyBag
  /\ wire = {}
  /\ frames = 0
  /\ pc = "summary"
  /\ exitCode = -1
  /\ options = NoOptions
  /\ servers = ServerList(1)
  /\ results \in ResultLists
  /\ localFiles = [k \in DOMAIN results |-> results[k].file]
  /\ remoteFiles = <<>>
  /\ conclusive = TRUE
  /\ fileComparisonMessage = FALSE
  /\ diff = [NoDiff EXCEPT !.toTransfer = localFiles]
  /\ forceUpload = "none"
  /\ filesToUpload = localFiles
  /\ loop = NoLoop
  /\ log = [NoLog EXCEPT !.fetchedFor = {PubkeyOf("stored-nbunksec")},
                         !.scanned = TRUE, !.uploaderCalls = 1]
  /\ projectContext = ProjectAtScan(0, 1)
  /\ signer = "stored-nbunksec"
  /\ publisherPubkey = PubkeyOf("stored-nbunksec")
  /\ summary = NoSummary

NextSummary == PrintErrorSummary

SpecSummary == InitSummary /\ [][NextSummary]_vars

\* ================================================================ claims
\* What the spec calls outcome `accepted`: the relay answered the published
\* record, an OK frame carrying its id with flag true, before any other
\* resolve.
AcceptedRecord(c) == c.outcome = "accepted" /\ c.ackId = c.event

\* C1: publishToRelays returns true if and only if at least one relay of the
\* list answered the published record with an OK frame whose flag is true
\* before its outcome was otherwise decided; false for the empty list.
C1_TrueIffSomeRelayAccepted ==
  pub.state = "returned" =>
    (pub.result <=> \E i \in Current(conns) : AcceptedRecord(conns[i]))

\* C6: an OK frame whose id differs from the id of the published record is
\* ignored: the relay's outcome stays as it was and the collector gets no
\* entry.
C6_OtherIdIgnored ==
  [][\A i \in DOMAIN conns : \A f \in Frames(conns[i].event) :
       (f.verb = "OK" /\ f.id # conns[i].event /\ OnMessage(i, f)) =>
         (conns'[i].outcome = conns[i].outcome /\ messageCollector' = messageCollector)
    ]_vars

\* C7: within one call a relay gets at most one failure entry in the
\* collector, and a relay whose outcome is accepted gets none.
C7_OneOutcomePerRelay ==
  \A i \in Current(conns) :
    /\ EntriesFor(messageCollector, conns[i].relay) <= 1
    /\ conns[i].outcome = "accepted" => EntriesFor(messageCollector, conns[i].relay) = 0

\* C8: publishToRelays eventually returns whatever the relays do, a relay
\* that neither opens nor fails included.
C8_EventuallyReturns == <>(pub.state = "returned")

\* C9: when the acknowledgement timer of an opened connection fires and no
\* OK frame has decided the outcome, the relay is not accepted (timed-out if
\* nothing else had settled it), a timeout entry is recorded for the relay,
\* the socket is no longer open and the call no longer waits on the relay.
C9_TimeoutOutcome ==
  [][\A i \in DOMAIN conns :
       (OnTimeout(i) /\ conns[i].outcome \notin {"accepted", "rejected", "rate-limited"}) =>
         /\ conns[i].sent = 1
         /\ conns'[i].outcome \notin {"pending", "accepted"}
         /\ conns[i].outcome = "pending" => conns'[i].outcome = "timed-out"
         /\ EntriesOf(messageCollector', conns[i].relay, <<"Timeout waiting for response">>)
              = EntriesOf(messageCollector, conns[i].relay, <<"Timeout waiting for response">>) + 1
         /\ conns'[i].sock \notin {"connecting", "open"}
         /\ (\A j \in Current(conns) : j # i => Settled(conns[j])) => pub'.state = "returned"
    ]_vars

C9_Witness ==
  /\ pub.state = "returned"
  /\ ~pub.result
  /\ \E i \in Current(conns) :
       /\ conns[i].outcome = "timed-out"
       /\ conns[i].sock = "closing"
       /\ EntriesOf(messageCollector, conns[i].relay, <<"Timeout waiting for response">>) = 1

\* C10: when publishToRelays returns, every relay of the list that did not
\* accept has an entry in the collector.
C10_FailureRecordedAtReturn ==
  pub.state = "returned" =>
    \A i \in Current(conns) :
      conns[i].outcome # "accepted" => EntriesFor(messageCollector, conns[i].relay) >= 1

\* The entries of the collector that tag a relay as rate-limited.
RateLimitedEntries(mc, relay) ==
  SumOver(mc, {e \in BagToSet(mc) :
                 /\ e.target = relay /\ e.type = "relay-rejection"
                 /\ e.content # <<>> /\ e.content[1] = "Rate limited:"})

RejectFrame(f) == f.verb = "OK" /\ ~f.flag /\ f.len = 4

RateLimitText(m) == Includes(m, "rate-limit") \/ Includes(m, "noting too much")

Attempts(relay) == {i \in Current(conns) : conns[i].relay = relay}

\* C12: within one call every relay of the list gets exactly one connection
\* attempt, and at most one EVENT frame goes out on it, whatever the
\* outcome; no attempt is added and no second frame is sent afterwards.
C12_NoRetry ==
  /\ [](pub.state # "idle" =>
         /\ \A k \in DOMAIN relays : Cardinality(Attempts(relays[k])) = 1
         /\ Cardinality(Current(conns)) = Len(relays)
         /\ \A i \in Current(conns) :
              /\ conns[i].sent <= 1
              /\ conns[i].outcome = "ctor-failed" => conns[i].sent = 0)
  /\ [][pub.state # "idle" =>
          /\ Len(conns') = Len(conns)
          /\ \A i \in DOMAIN conns :
               /\ conns'[i].relay = conns[i].relay
               /\ Settled(conns[i]) => conns'[i].sent = conns[i].sent
       ]_vars

C12_Witness ==
  /\ pub.state = "returned"
  /\ Len(relays) = MaxRelays
  /\ \A k \in DOMAIN relays : Cardinality(Attempts(relays[k])) = 1
  /\ \E i, j \in Current(conns) :
       /\ conns[i].outcome = "rejected" /\ conns[i].sent = 1 /\ conns[i].sock = "closed"
       /\ conns[j].outcome = "closed" /\ conns[j].sent = 1

DecidedByOk(c) == c.outcome \in {"accepted", "rejected", "rate-limited"}

\* C13: once an OK frame has decided a relay's outcome, a later OK frame from
\* that relay, whatever its flag, id and message, changes neither the outcome
\* nor the frame it is credited to, and a call that has returned keeps its
\* return value; the value returned is true exactly if some relay's first
\* deciding frame accepted.
C13_FirstOkWins ==
  /\ [][\A i \in DOMAIN conns : \A f \in OkFrames(conns[i].event) :
          (OnMessage(i, f) /\ DecidedByOk(conns[i])) =>
            /\ conns'[i].outcome = conns[i].outcome
            /\ conns'[i].ackId = conns[i].ackId
            /\ pub.state = "returned" => pub' = pub
            /\ pub'.state = "returned" =>
                 pub'.result = (\E j \in Current(conns) : conns[j].outcome = "accepted")
       ]_vars
  /\ [][pub.state = "returned" => pub' = pub]_vars

C13_Witness ==
  /\ pub.state = "returned" /\ pub.result
  /\ frames = 2
  /\ \E i \in Current(conns) :
       /\ conns[i].outcome = "accepted"
       /\ conns[i].timer = "armed"
       /\ \A j \in Current(conns) \ {i} : conns[j].sock = "connecting"
       /\ \E e \in BagToSet(messageCollector) :
            e.type = "relay-rejection" /\ e.target = conns[i].relay

NoticeFrame == [verb |-> "NOTICE", id |-> OtherId, flag |-> FALSE, len |-> 2, msg |-> <<>>]

\* C14: a NOTICE frame received from a relay adds an entry for that relay
\* to the collector and leaves the relay's outcome as it was.
C14_NoticeSurfaced ==
  [][\A i \in DOMAIN conns :
       OnMessage(i, NoticeFrame) =>
         /\ EntriesFor(messageCollector', conns[i].relay)
              = EntriesFor(messageCollector, conns[i].relay) + 1
         /\ conns'[i].outcome = conns[i].outcome
    ]_vars

\* ------------------------------------------------------ claims on a run
Sent(eventId) == \E r \in Range(relays) : <<r, eventId>> \in wire

\* C2: every DELETE request issued for a to-delete entry comes after an
\* EVENT frame with the deletion record of that entry went out to a relay.
C2_DeletionRecordSentBeforeDelete ==
  \A d \in log.deletes : Sent(EventId(5, d.path))

AllMatch ==
  /\ localFiles # <<>>
  /\ pc \notin {"scan", "fetch", "probe"}
  /\ compareFiles(localFiles, remoteFiles).toTransfer = <<>>

NothingToPurge ==
  ~options.purge \/ compareFiles(localFiles, remoteFiles).toDelete = <<>>

NothingDone ==
  /\ filesToUpload = <<>> /\ log.uploaderCalls = 0
  /\ log.signed = {} /\ log.refused = {} /\ log.handed = {} /\ wire = {}
  /\ log.deletes = {}

\* C3: a run in which every local file matches a remote entry, force is not
\* set, no forced upload was confirmed and nothing is to purge does nothing
\* but ask (with a terminal) and exit with code 0: no uploader call, no
\* record signed or published, no DELETE.
C3_IdempotentRerun ==
  (AllMatch /\ ~options.force /\ forceUpload # "yes" /\ NothingToPurge) =>
    /\ pc \in {"confirm", "exited"}
    /\ pc = "exited" => exitCode = 0
    /\ NothingDone

C3_Witness ==
  /\ AllMatch /\ ~options.force /\ NothingToPurge
  /\ Len(localFiles) = 2 /\ Len(remoteFiles) = 2
  /\ options.nonInteractive /\ options.publishRelayList
  /\ pc = "exited" /\ exitCode = 0

\* The remote set is empty and a HEAD probe of the first local file's hash
\* was answered with success.
Ambiguous ==
  /\ remoteFiles = <<>>
  /\ \E h \in log.heads : h.ok /\ h.sha256 = localFiles[1].sha256

HandedToUploader(file) == log.uploaderCalls > 0 /\ file \in Range(filesToUpload)

LoadFailed(file) ==
  Entry("error", <<"file", file.path>>, <<"load failed">>) \in BagToSet(messageCollector)

\* The first half of C4: in the ambiguous state, without force and without
\* a confirmed forced upload, the run asks or exits and hands no file to the
\* uploader.
C4_ExitsWithoutForce ==
  (Ambiguous /\ ~options.force /\ forceUpload # "yes") =>
    /\ pc \in {"confirm", "exited"}
    /\ log.uploaderCalls = 0 /\ filesToUpload = <<>>

\* C4 as stated: in the ambiguous state the run without force exits without
\* handing a file to the uploader, and the run with force proceeds and hands
\* every local file to the uploader.
C4_AmbiguousAsStated ==
  /\ C4_ExitsWithoutForce
  /\ (Ambiguous /\ options.force) =>
       /\ pc \notin {"confirm", "exited"}
       /\ diff.toTransfer = localFiles
       /\ pc \notin {"loadFile"} => \A k \in DOMAIN localFiles : HandedToUploader(localFiles[k])

\* C4, amended: in the ambiguous state the run without force exits without
\* handing a file to the uploader; the run with force puts every local file
\* in the to-upload set, neither asks nor exits with code 0, hands to the
\* uploader every local file whose content could be loaded, and exits (with
\* code 1) only if none could.
C4_AmbiguousState ==
  /\ C4_ExitsWithoutForce
  /\ (Ambiguous /\ options.force) =>
       /\ pc # "confirm"
       /\ diff.toTransfer = localFiles
       /\ pc = "exited" =>
            exitCode = 1 /\ \A k \in DOMAIN localFiles : LoadFailed(localFiles[k])
       /\ pc \notin {"loadFile", "exited"} =>
            /\ \A k \in DOMAIN localFiles :
                 HandedToUploader(localFiles[k]) \/ LoadFailed(localFiles[k])
            /\ \E k \in DOMAIN localFiles : HandedToUploader(localFiles[k])

C4_Witness ==
  /\ Ambiguous /\ options.force
  /\ Len(localFiles) = 2
  /\ pc = "uploading"
  /\ \A k \in DOMAIN localFiles : HandedToUploader(localFiles[k])

\* C5: a HEAD probe is made only when the remote set is empty and the fetch
\* was inconclusive; a run whose relays conclusively report no record
\* goes on to the upload without force and without confirmation.
C5_ProbeOnlyWhenInconclusive ==
  /\ log.heads # {} => (remoteFiles = <<>> /\ ~conclusive)
  /\ (conclusive /\ remoteFiles = <<>> /\ pc \notin {"scan", "fetch"}) =>
       /\ pc # "confirm"
       /\ ~(pc = "exited" /\ exitCode = 0)

AllUploadsFailed == results # <<>> /\ \A k \in DOMAIN results : ~results[k].success

\* C15: a run in which the uploader reported failure for every file handed
\* to it ends with exit code 1.
C15_AllUploadsFailedExitsOne ==
  (AllUploadsFailed /\ pc \in {"done", "exited"}) => exitCode = 1

\* A step in which the signer answered a sign request with an error.
SignFailed == log'.refused # log.refused

\* C16: a failing sign operation (deletion record, delete authorization,
\* relay list, server list or profile) ends the run with a non-zero exit
\* code, so that nothing is signed, published or deleted after it.
C16_SignerErrorAborts ==
  [][SignFailed => (pc' = "exited" /\ exitCode' > 0)]_vars

\* The load loop of lines 483-492 has run to its end.
LoadingDone ==
  log.uploaderCalls > 0 \/ (pc = "exited" /\ exitCode = 1 /\ localFiles # <<>>)

\* C19: once the to-upload files have been loaded, each of them either has a
\* file error in the collector or is in the set handed to the uploader,
\* never both; the uploader is called exactly if that set is not empty, and
\* the run exits with code 1 at this step exactly if it is empty.  While the
\* loop runs the same holds of the files already tried, and the run has not
\* exited.
C19_LoadErrorsNotFatal ==
  /\ LoadingDone =>
       /\ \A k \in DOMAIN diff.toTransfer :
            (diff.toTransfer[k] \in Range(filesToUpload)) # LoadFailed(diff.toTransfer[k])
       /\ Range(filesToUpload) \subseteq Range(diff.toTransfer)
       /\ (log.uploaderCalls = 1) <=> (filesToUpload # <<>>)
       /\ (pc = "exited" /\ exitCode = 1) <=> (filesToUpload = <<>>)
       /\ Len(results) \in {0, Len(filesToUpload)}
  /\ pc = "loadFile" =>
       /\ log.uploaderCalls = 0
       /\ \A k \in 1..(loop.i - 1) :
            (diff.toTransfer[k] \in Range(filesToUpload)) # LoadFailed(diff.toTransfer[k])

C19_Witness ==
  /\ LoadingDone
  /\ Len(diff.toTransfer) = 2
  /\ LoadFailed(diff.toTransfer[1])
  /\ filesToUpload = <<diff.toTransfer[2]>>
  /\ Len(results) = 1
  /\ pc = "done" /\ exitCode = 0

\* ------------------------------------------------- claims on the purge
PurgePcs == {"purgeSign", "purgePublish", "purgeAuth", "purgeDelete"}

\* The purge loop is past to-delete entry k.
Processed(k) == pc = "done" \/ (pc \in PurgePcs /\ loop.i > k)

Deleted(file, server) ==
  [server |-> server, sha256 |-> file.sha256, path |-> file.path] \in log.deletes

AuthRefused(file, server) ==
  Refusal(DeleteAuthId(file), server, file.path) \in log.refused

RecordRefused(file) == Refusal(DeletionId(file), 0, file.path) \in log.refused

Untouched(file) ==
  /\ DeletionId(file) \notin log.signed \cup log.handed
  /\ \A d \in log.deletes : d.path # file.path
  /\ \A r \in log.refused : r.path = file.path => r.server = 0

NoWork ==
  /\ ~log.copied /\ ~log.scanned
  /\ localFiles = <<>> /\ remoteFiles = <<>> /\ log.heads = {}
  /\ NothingDone

NoCredential ==
  /\ ~options.privatekey /\ ~options.nbunksec /\ ~options.bunker
  /\ ~projectContext.privateKey /\ ~projectContext.bunkerPubkey

\* The nbunksec of the command line was the credential to use and the
\* import of it has failed.
NbunksecUnusable ==
  /\ ~options.privatekey /\ options.nbunksec
  /\ signer = "none" /\ pc # "importNbunk"

\* C17: once the project is read, a run without any signing credential,
\* or whose command-line nbunksec could not be used, has exited with code 1
\* without a signer and without having done any work.
C17_NoCredentialExitsBeforeWork ==
  (pc # "project" /\ (NoCredential \/ NbunksecUnusable)) =>
    /\ pc = "exited" /\ exitCode = 1
    /\ signer = "none"
  /\ publisherPubkey = PubkeyOf("none")
    /\ NoWork

C17_Witness ==
  /\ pc = "exited" /\ exitCode = 1
  /\ NoCredential
  /\ projectContext.projectData = "file"
  /\ projectContext.fallback /\ options.fallback
  /\ options.nonInteractive
  /\ NoWork

\* C18: a run that finds no project configuration exits with code 1 without
\* having done any work, whatever the mode and the command line.
C18_NoProjectExitsBeforeWork ==
  projectContext.projectData \in {"null", "default"} =>
    /\ pc = "exited" /\ exitCode = 1
    /\ NoWork

\* ------------------------------------------- further claims on a run
Kind(id) == id[1]

\* C21: in a run without the purge option no kind-5 deletion record is
\* signed, handed to publishToRelays or sent to a relay, no delete
\* authorization is asked for and no DELETE is sent, whatever the to-delete
\* set and the other options.
C21_NoPurgeNoDeletion ==
  ~options.purge =>
    /\ \A id \in log.signed \cup log.handed : Kind(id) \notin {5, 24242}
    /\ \A r \in log.refused : Kind(r.id) \notin {5, 24242}
    /\ \A w \in wire : Kind(w[2]) # 5
    /\ log.deletes = {}
    /\ pc \notin PurgePcs
    /\ loop.completed = 0 /\ loop.failed = 0

C21_Witness ==
  /\ ~options.purge /\ options.force /\ options.publishRelayList
  /\ pc = "done"
  /\ diff.toDelete # <<>> /\ ~MissingInfo(diff.toDelete[1])
  /\ results # <<>>
  /\ EventId(10002, 0) \in log.handed

RunEnded == pc \in {"done", "exited"}

Refused(id) == \E r \in log.refused : r.id = id

\* C22: a run that scanned at least one included file and has ended has,
\* for each of the relay-list and server-list options that is set, handed
\* the record (kind 10002, kind 10063) to publishToRelays, unless the signer
\* refused to sign it.
C22_MetadataPublishedBeforeEnd ==
  (RunEnded /\ localFiles # <<>>) =>
    /\ options.publishRelayList =>
         (EventId(10002, 0) \in log.handed \/ Refused(EventId(10002, 0)))
    /\ options.publishServerList =>
         (EventId(10063, 0) \in log.handed \/ Refused(EventId(10063, 0)))

\* The run called the uploader.
ReachedUpload == log.uploaderCalls > 0

\* C23: in a run with the force option that reached the upload step every
\* included local file was handed to the uploader, or its content could not
\* be loaded.
C23_ForceUploadsEveryFile ==
  (options.force /\ ReachedUpload) =>
    \A k \in DOMAIN localFiles :
      localFiles[k] \in Range(filesToUpload) \/ LoadFailed(localFiles[k])

\* ---------------------------------------- claims on the error summary
FailedAt == {k \in DOMAIN results : ~results[k].success}

GroupOf(path) == {g \in DOMAIN summary.groups : path \in Range(summary.groups[g].paths)}

RECURSIVE SumLen(_)
SumLen(groups) == IF groups = <<>> THEN 0 ELSE Len(Head(groups).paths) + SumLen(Tail(groups))

LinesOf(error, kind) ==
  SelectSeq(summary.lines, LAMBDA l : l.error = error /\ l.kind = kind)

\* C24: in the printed error summary every failed result is in exactly one
\* group, the group sizes sum to the number of failed results, two failed
\* results are in the same group exactly if their normalized texts are
\* equal; without verbose at most 3 lines are printed under a group, and
\* the paths listed plus the announced remainder make the group's size.
C24_ErrorGroups ==
  pc = "summarized" =>
    /\ \A k \in FailedAt : Cardinality(GroupOf(results[k].file.path)) = 1
    /\ \A k \in DOMAIN results \ FailedAt : GroupOf(results[k].file.path) = {}
    /\ SumLen(summary.groups) = Cardinality(FailedAt)
    /\ \A j, k \in FailedAt :
         (GroupOf(results[j].file.path) = GroupOf(results[k].file.path))
           <=> (NormalizeError(results[j].error) = NormalizeError(results[k].error))
    /\ \A g \in DOMAIN summary.groups :
         LET error == summary.groups[g].error
             size == Len(summary.groups[g].paths)
             listed == Len(LinesOf(error, "path"))
             more == LinesOf(error, "more")
             rest == IF more = <<>> THEN 0 ELSE more[1].count
         IN /\ Len(LinesOf(error, "group")) = 1
            /\ Len(more) <= 1
            /\ listed + rest = size
            /\ ~summary.verbose => listed + Len(more) <= 3
            /\ \A l \in Range(LinesOf(error, "path")) :
                 l.path \in Range(summary.groups[g].paths)

C24_Witness ==
  /\ pc = "summarized"
  /\ ~summary.verbose
  /\ Len(summary.groups) = 1
  /\ Len(summary.groups[1].paths) = 4
  /\ Len(summary.lines) = 4
  /\ \E j, k \in FailedAt : results[j].error # results[k].error

\* ------------------------------------------- claims on purge and prompts
\* The hashes of the files of the site: every local file is either
\* unchanged or was handed to the uploader.
NeededHashes == {localFiles[k].sha256 : k \in DOMAIN localFiles}

\* C25: no DELETE is sent for a hash that a local file of the site has.
C25_PurgeKeepsNeededBlobs ==
  \A d \in log.deletes : d.sha256 \notin NeededHashes

\* An interactive prompt is open: Input.prompt for the bunker URL or
\* Confirm.prompt for the forced upload.
Prompting == pc \in {"promptBunker", "confirm"}

\* C26: with the non-interactive option no interactive prompt is issued.
C26_NonInteractiveNeverPrompts ==
  options.nonInteractive => ~Prompting

\* ------------------------------------- claims on the end of a publish
\* Relay r has a connection of the call in progress whose promise settled.
Decided(r) == \E i \in Current(conns) : conns[i].relay = r /\ Settled(conns[i])

\* C27: when publishToRelays has returned, every relay of the list has a
\* decided outcome; a connection has sent its EVENT frame only if its socket
\* opened, and it sends the frame in the step in which the socket opens.
C27_ReturnsAfterAllDecided ==
  /\ [](pub.state = "returned" => \A k \in DOMAIN relays : Decided(relays[k]))
  /\ [](\A i \in DOMAIN conns :
          conns[i].sent > 0 => conns[i].sock \notin {"connecting", "failed"})
  /\ [][\A i \in DOMAIN conns :
          (i \in DOMAIN conns' /\ conns'[i].sent # conns[i].sent)
            => /\ conns[i].sock = "connecting" /\ conns'[i].sock = "open"
               /\ conns'[i].sent = 1
               /\ <<conns[i].relay, conns[i].event>> \in wire']_vars

C27_Witness ==
  /\ pub.state = "returned"
  /\ Len(relays) = 2
  /\ \E i, j \in Current(conns) :
       /\ conns[i].outcome = "accepted" /\ conns[i].sent = 1
       /\ conns[j].outcome \notin {"accepted", "pending", "ctor-failed"}
       /\ conns[j].relay # conns[i].relay

\* Relay r was contacted by the call in progress: a socket was created for
\* it, unless its constructor throws.
Contacted(r) ==
  \E i \in Current(conns) :
    conns[i].relay = r /\ (r \notin badUrl => conns[i].sock # "failed")

\* C28: a call of publishToRelays is running or has returned a boolean, it
\* never ends by throwing; every relay of the list is contacted whether or
\* not the constructor threw for another one, and the value returned is
\* true exactly if the promise of some relay of the list resolved true.
C28_NeverThrows ==
  /\ pub.state \in {"idle", "running", "returned"}
  /\ pub.result \in BOOLEAN
  /\ pub.state # "idle" => \A k \in DOMAIN relays : Contacted(relays[k])
  /\ pub.state = "returned" =>
       (pub.result <=> \E i \in Current(conns) : conns[i].outcome = "accepted")

C28_Witness ==
  /\ pub.state = "returned"
  /\ pub.result
  /\ \E i, j \in Current(conns) :
       /\ conns[i].outcome = "ctor-failed" /\ conns[i].relay \in badUrl
       /\ conns[j].outcome = "accepted" /\ conns[j].relay \notin badUrl

\* --------------------------------------- claims on the purge counters
\* The entry has no source record or no hash.
Lacking(file) == ~file.hasEvent \/ file.sha256 = 0

\* The number of to-delete entries the purge loop is past.
Passed == IF pc \in PurgePcs THEN loop.i - 1 ELSE Len(diff.toDelete)

FailedEntries ==
  {k \in 1..Passed : Lacking(diff.toDelete[k]) \/ RecordRefused(diff.toDelete[k])}

\* C29: at every point of the purge loop, and at its end, each entry the
\* loop is past has been counted once: failed counts the entries without
\* record or hash and those whose deletion record was not signed, completed
\* the others, so that at the end completed + failed is the number of
\* to-delete entries; a step never lowers a counter.  For an entry without
\* record or hash nothing is asked of the signer, nothing is published and
\* no DELETE is sent.
C29_PurgeCounters ==
  /\ [](/\ loop.failed = Cardinality(FailedEntries)
        /\ loop.completed = Passed - Cardinality(FailedEntries)
        /\ pc = "done" => loop.completed + loop.failed = Len(diff.toDelete)
        /\ \A k \in DOMAIN diff.toDelete :
             LET file == diff.toDelete[k]
             IN Lacking(file) =>
                  /\ Untouched(file)
                  /\ \A r \in log.refused : r.path # file.path
                  /\ pub.event # DeletionId(file)
                  /\ \A w \in wire : w[2] # DeletionId(file))
  /\ [][/\ loop'.failed >= loop.failed
        /\ loop'.completed >= loop.completed
        /\ (loop'.failed + loop'.completed) - (loop.failed + loop.completed)
             = Passed' - Passed]_vars

C29_Witness ==
  /\ pc = "done"
  /\ Len(diff.toDelete) = 2
  /\ Lacking(diff.toDelete[1])
  /\ ~Lacking(diff.toDelete[2])
  /\ loop.failed = 1
  /\ loop.completed = 1
  /\ \E d \in log.deletes : d.path = diff.toDelete[2].path

\* ------------------------------------ claims on the order of the phases
\* The records the signer was asked for so far.
AskedIds == log.signed \cup log.handed \cup {r.id : r \in log.refused}

PurgeKinds == {5, 24242}

\* Relay list, server list, profile: the place of a metadata kind.
Order(kind) == CASE kind = 10002 -> 1 [] kind = 10063 -> 2 [] kind = 0 -> 3 [] OTHER -> 0

PurgeIds(ids) == {id \in ids : Kind(id) \in PurgeKinds}

MetadataIds(ids) == {id \in ids : Order(Kind(id)) > 0}

PurgeStarted == pc \in PurgePcs \/ PurgeIds(AskedIds) # {} \/ log.deletes # {}

MetadataStarted ==
  pc \in {"metadataSign", "metadataPublish"} \/ MetadataIds(AskedIds) # {}

\* processUploads is not pending and was not left without its results.
UploadsOver ==
  /\ pc \notin {"scan", "fetch", "probe", "confirm", "loadFile", "uploading"}
  /\ log.uploaderCalls > 0 => Len(results) = Len(filesToUpload)

\* C30: once the purge has started (a deletion record or delete
\* authorization asked of the signer, or a DELETE sent) the uploads are over
\* and nothing is uploaded any more; once the metadata step has started the
\* uploads and the purge are over and no purge work is done any more; a
\* metadata record is asked of the signer, and sent to relays, only while
\* no record of a later place in the order relay list, server list, profile
\* has been asked for, or sent.
C30_PhasesOrdered ==
  /\ [](/\ PurgeStarted => UploadsOver
        /\ MetadataStarted => (UploadsOver /\ pc \notin PurgePcs))
  /\ [][/\ PurgeStarted =>
             (results' = results /\ log'.uploaderCalls = log.uploaderCalls)
        /\ MetadataStarted =>
             /\ results' = results /\ log'.uploaderCalls = log.uploaderCalls
             /\ log'.deletes = log.deletes
             /\ PurgeIds(AskedIds') = PurgeIds(AskedIds)
             /\ pc' \notin PurgePcs
        /\ \A id \in MetadataIds(AskedIds') \ AskedIds :
             \A before \in MetadataIds(AskedIds) : Order(Kind(before)) < Order(Kind(id))
        /\ \A w \in wire' \ wire :
             Order(Kind(w[2])) > 0 =>
               \A v \in wire : Order(Kind(v[2])) > 0 => Order(Kind(v[2])) <= Order(Kind(w[2]))
       ]_vars

C30_Witness ==
  /\ pc = "done"
  /\ log.uploaderCalls = 1 /\ results # <<>>
  /\ log.deletes # {}
  /\ {EventId(10002, 0), EventId(10063, 0), EventId(0, 0)} \subseteq log.handed
  /\ \E w \in wire : Kind(w[2]) = 10063

\* --------------------------------------- claims on the metadata records
MetadataPcs == {"metadataSign", "metadataPublish"}

\* The metadata records the options enable, in a project with a profile
\* where the profile is concerned (lines 856, 886, 916).
Enabled ==
  (IF options.publishRelayList THEN {EventId(10002, 0)} ELSE {})
    \cup (IF options.publishServerList THEN {EventId(10063, 0)} ELSE {})
    \cup (IF options.publishProfile /\ options.profile THEN {EventId(0, 0)} ELSE {})

\* C31: a step of the metadata part, whatever the signer or the relays
\* answer, goes on to the next enabled record or to the end of the run and
\* never to an exit; when the run is done every enabled metadata record was
\* asked of the signer and, if signed, handed to publishToRelays, and the
\* exit code is 0 also when a publish was accepted by no relay.
C31_MetadataIsolated ==
  /\ [](pc = "done" =>
          /\ exitCode = 0
          /\ \A id \in Enabled : id \in log.handed \/ Refused(id)
          /\ \A id \in Enabled : id \in log.signed => id \in log.handed)
  /\ [][(pc \in MetadataPcs) =>
          (pc' \in MetadataPcs \cup {"done"} /\ exitCode' \in {-1, 0})
       ]_vars

C31_Witness ==
  /\ pc = "done"
  /\ exitCode = 0
  /\ Enabled = {EventId(10002, 0), EventId(10063, 0), EventId(0, 0)}
  /\ Refused(EventId(10002, 0))
  /\ EventId(10063, 0) \in log.handed
  /\ EventId(0, 0) \in log.handed
  /\ pub.event = EventId(0, 0) /\ pub.state = "returned" /\ ~pub.result

\* Record id was asked of the signer.
Asked(id) == id \in log.signed \cup log.handed \/ Refused(id)

\* C32: when the run is done, the relay list (kind 10002) was asked of the
\* signer and, if signed, handed to publishToRelays exactly if the
\* configuration summary shows its publication, that is if the option or the
\* project configuration enables it; likewise the server list (kind 10063).
C32_MetadataFollowsSummary ==
  pc = "done" =>
    LET shown == ConfigurationSummary(options, projectContext)
    IN /\ shown.publishRelayList <=> Asked(EventId(10002, 0))
       /\ shown.publishServerList <=> Asked(EventId(10063, 0))
       /\ \A id \in log.signed : Order(Kind(id)) > 0 => id \in log.handed

\* ------------------------------------------------- claims on the signer
\* The first of the four sources that need no bunker of the project:
\* command-line private key, nbunksec, bunker URL, project private key.
TopSource ==
  IF options.privatekey THEN "privatekey"
  ELSE IF options.nbunksec THEN "nbunksec"
  ELSE IF options.bunker THEN "bunker"
  ELSE IF projectContext.privateKey THEN "project-key"
  ELSE "none"

\* The source the five-step precedence names.
NamedSource ==
  IF TopSource # "none" THEN TopSource
  ELSE IF projectContext.bunkerPubkey /\ projectContext.nbunk THEN "stored-nbunksec"
  ELSE "none"

\* The project's bunker is the source in use; its stored credential or, if
\* there is none or it fails, a bunker URL asked of the user.
BunkerSources ==
  IF TopSource # "none" \/ ~projectContext.bunkerPubkey THEN {}
  ELSE IF projectContext.nbunk THEN {"stored-nbunksec", "prompted-bunker"}
  ELSE {"prompted-bunker"}

C34_EmptyScanStops ==
  (log.scanned /\ localFiles = <<>>) =>
    /\ pc = "exited"
    /\ log.emptyScan \in {"all-ignored", "no-files"}
    /\ log.emptyScan = "all-ignored" => exitCode = 0
    /\ log.emptyScan = "no-files" => exitCode = 1
    /\ log.fetchedFor = {} /\ remoteFiles = <<>>
    /\ log.heads = {} /\ log.uploaderCalls = 0 /\ results = <<>>
    /\ AskedIds = {} /\ log.deletes = {} /\ wire = {}
    /\ pub.state = "idle"

C34_Witness ==
  /\ log.scanned /\ localFiles = <<>>
  /\ log.emptyScan = "all-ignored"
  /\ exitCode = 0
  /\ options.purge /\ options.force /\ options.publishRelayList

\* ------------------------------------------ claims on the 404 fallback
FallbackConfigured == options.fallback \/ projectContext.fallback

\* The signer was obtained through a bunker, that is over the network.
BunkerSigner == signer \in {"nbunksec", "bunker", "stored-nbunksec", "prompted-bunker"}

\* No scan, remote fetch, probe, upload, purge or metadata publication yet.
NothingStarted ==
  /\ ~log.scanned /\ localFiles = <<>>
  /\ log.fetchedFor = {} /\ log.heads = {} /\ log.uploaderCalls = 0
  /\ AskedIds = {} /\ log.deletes = {} /\ wire = {}

====
